---- MODULE Spec2Model ----
(***************************************************************************)
(* A model of the decimal value engine of cryptomath2.h and of the scalar  *)
(* SQL functions of crypto_decimal_extension.c that call it.               *)
(*                                                                         *)
(* C strings are sequences of one-character strings; reading one position  *)
(* past the end yields NUL.  mpz_t values are integers.  Magnitudes are    *)
(* kept below 10^MagnitudeDigits by the guards of the actions, because the *)
(* model checker's integers are 32 bits wide; denominations with more      *)
(* decimals than that are in the registry but are never exercised.         *)
(***************************************************************************)
EXTENDS Integers, Sequences, FiniteSets, TLC

\* ------------------------------------------------------------------------
\* Bounds of the model
\* ------------------------------------------------------------------------
MaxLen == 4     \* longest enumerated string that is validated, parsed and formatted
MaxLen1 == 1    \* longest enumerated first operand of an arithmetic call
MaxLen2 == 2    \* longest enumerated second operand of an arithmetic call
MaxRows == 2    \* most rows one aggregation is stepped with
MaxType == 1    \* families 0..MaxType are instantiated (BTC, ETH)

\* The greatest value of a uint8_t
UInt8Max == 255

\* Magnitudes of at most this many decimal digits are exercised.
MagnitudeDigits == 10 - 1

\* ------------------------------------------------------------------------
\* Registry
\* ------------------------------------------------------------------------
CRYPTO_COUNT == 16
DENOM_COUNT == 39

crypto_defs ==
  [i \in 0..(CRYPTO_COUNT - 1) |->
     << "BTC", "ETH", "BNB", "SOL", "XRP", "ADA", "AVAX", "DOGE", "DOT",
        "MATIC", "USDC", "USDT", "FLR", "SGB", "WFLR", "WSGB" >>[i + 1]]

\* A registry entry that records one decimal for an atomic unit.
Denom_no_atomic(sym, type, dec) ==
  [symbol |-> sym, crypto_type |-> type, decimals |-> IF dec = 0 THEN 1 ELSE dec]

Denom(sym, type, dec) == [symbol |-> sym, crypto_type |-> type, decimals |-> dec]

crypto_denoms ==
  [i \in 0..(DENOM_COUNT - 1) |->
     << Denom("BTC", 0, 8), Denom("SAT", 0, 0), Denom("mBTC", 0, 5), Denom("μBTC", 0, 2),
        Denom("ETH", 1, 18), Denom("GWEI", 1, 9), Denom("WEI", 1, 0),
        Denom("BNB", 2, 18), Denom("JAGER", 2, 0),
        Denom("SOL", 3, 9), Denom("LAMP", 3, 0),
        Denom("XRP", 4, 6), Denom("DROP", 4, 0),
        Denom("ADA", 5, 6), Denom("LOVELACE", 5, 0),
        Denom("AVAX", 6, 18), Denom("nAVAX", 6, 0),
        Denom("DOGE", 7, 8), Denom("SAT", 7, 0),
        Denom("DOT", 8, 10), Denom("PLANCK", 8, 0),
        Denom("MATIC", 9, 18), Denom("WEI", 9, 0),
        Denom("USDC", 10, 6), Denom("μUSDC", 10, 0),
        Denom("USDT", 11, 6), Denom("μUSDT", 11, 0),
        Denom("FLR", 12, 18), Denom("GWEI", 12, 9), Denom("WEI", 12, 0),
        Denom("SGB", 13, 18), Denom("GWEI", 13, 9), Denom("WEI", 13, 0),
        Denom("WFLR", 14, 18), Denom("GWEI", 14, 9), Denom("WEI", 14, 0),
        Denom("WSGB", 15, 18), Denom("GWEI", 15, 9), Denom("WEI", 15, 0) >>[i + 1]]

BTC_DENOM_BITCOIN == 0
BTC_DENOM_SATOSHI == 1
BTC_DENOM_MILLIBIT == 2
BTC_DENOM_MICROBIT == 3

crypto_is_valid_type(type) == type >= 0 /\ type < CRYPTO_COUNT

crypto_is_valid_denom(denom) == denom >= 0 /\ denom < DENOM_COUNT

\* ------------------------------------------------------------------------
\* Characters and C strings
\* ------------------------------------------------------------------------
NUL == "NUL"
NULL == << "NULL" >>

Str1(c) == << c >>

DigitChars == << "0", "1", "2", "3", "4", "5", "6", "7", "8", "9" >>

isdigit(c) == \E k \in 1..10 : DigitChars[k] = c

DigitVal(c) == (CHOOSE k \in 1..10 : DigitChars[k] = c) - 1

\* isspace of the C locale, as the bignum library uses it
isspace(c) == c \in {" ", "\t", "\n", "\r", "\f", "VT"}

\* the whitespace the validator names
IsWs(c) == c = " " \/ c = "\t" \/ c = "\n" \/ c = "\r"

At(s, i) == IF i >= 1 /\ i <= Len(s) THEN s[i] ELSE NUL

Tail_(s, i) == SubSeq(s, i, Len(s))

strchr(s, c) ==
  IF \E k \in 1..Len(s) : s[k] = c
  THEN CHOOSE k \in 1..Len(s) : s[k] = c /\ \A j \in 1..(k - 1) : s[j] # c
  ELSE 0

Zeros(n) == [k \in 1..n |-> "0"]

Min(a, b) == IF a < b THEN a ELSE b

Abs(x) == IF x < 0 THEN -x ELSE x

Sgn(x) == IF x > 0 THEN 1 ELSE IF x < 0 THEN -1 ELSE 0

\* ------------------------------------------------------------------------
\* The bignum library, as the engine uses it
\* ------------------------------------------------------------------------
RECURSIVE DigitsValue(_, _)
DigitsValue(s, acc) ==
  IF s = << >> THEN acc
  ELSE IF isdigit(Head(s)) THEN DigitsValue(Tail(s), acc * 10 + DigitVal(Head(s)))
  ELSE DigitsValue(Tail(s), acc)

RECURSIVE SkipSpace(_, _)
SkipSpace(s, i) == IF isspace(At(s, i)) THEN SkipSpace(s, i + 1) ELSE i

\* mpz_set_str(rop, str, 10): leading white space is skipped, one '-' is
\* accepted, the next character must be a digit, white space between the
\* digits is ignored, any other character makes the call fail; a failed
\* call returns -1 and leaves rop as it was.
mpz_set_str(rop, str) ==
  LET i0 == SkipSpace(str, 1)
      negative == At(str, i0) = "-"
      i1 == IF negative THEN i0 + 1 ELSE i0
      rest == Tail_(str, i1)
  IN IF ~isdigit(At(str, i1)) THEN [rc |-> -1, value |-> rop]
     ELSE IF \E k \in 1..Len(rest) : ~isdigit(rest[k]) /\ ~isspace(rest[k])
          THEN [rc |-> -1, value |-> rop]
          ELSE [rc |-> 0,
                value |-> IF negative THEN -DigitsValue(rest, 0) ELSE DigitsValue(rest, 0)]

RECURSIVE NatStr(_)
NatStr(n) == IF n < 10 THEN Str1(DigitChars[n + 1])
             ELSE Append(NatStr(n \div 10), DigitChars[(n % 10) + 1])

\* mpz_get_str(NULL, 10, op)
mpz_get_str(op) == IF op < 0 THEN << "-" >> \o NatStr(-op) ELSE NatStr(op)

\* mpz_tdiv_q, mpz_tdiv_r: quotient rounded toward zero and its remainder
mpz_tdiv_q(n, d) == Sgn(n) * Sgn(d) * (Abs(n) \div Abs(d))

mpz_tdiv_r(n, d) == n - d * mpz_tdiv_q(n, d)

\* mpz_fdiv_q: quotient rounded toward minus infinity
mpz_fdiv_q(n, d) ==
  LET q == mpz_tdiv_q(n, d)
  IN IF n - q * d # 0 /\ Sgn(n) * Sgn(d) < 0 THEN q - 1 ELSE q

\* A ceiling quotient that adds one whenever the signs agree, exact or not.
mpz_cdiv_q_always_up(n, d) ==
  IF Sgn(n) * Sgn(d) > 0 THEN mpz_tdiv_q(n, d) + 1 ELSE mpz_tdiv_q(n, d)

\* mpz_cdiv_q: quotient rounded toward plus infinity
mpz_cdiv_q(n, d) ==
  LET q == mpz_tdiv_q(n, d)
  IN IF n - q * d # 0 /\ Sgn(n) * Sgn(d) > 0 THEN q + 1 ELSE q

\* ------------------------------------------------------------------------
\* cryptomath2.h
\* ------------------------------------------------------------------------
\* A power that multiplies once instead of exp times.
power_once(base, exp) == IF exp = 0 THEN 1 ELSE base * exp

RECURSIVE power(_, _)
power(base, exp) == IF exp = 0 THEN 1 ELSE base * power(base, exp - 1)

crypto_init(type) == [crypto_type |-> type, value |-> 0]

RECURSIVE SkipBlank(_, _)
SkipBlank(s, i) == IF At(s, i) = " " THEN SkipBlank(s, i + 1) ELSE i

\* A parser that converts the fraction digits as written, without padding
\* them to the denomination's decimals.
crypto_set_from_decimal_unpadded(prior, denom, decimal_str) ==
  LET i0 == SkipBlank(decimal_str, 1)
      c0 == At(decimal_str, i0)
      sign == IF c0 = "-" THEN -1 ELSE 1
      i1 == IF c0 = "-" \/ c0 = "+" THEN i0 + 1 ELSE i0
      s == Tail_(decimal_str, i1)
      dot == strchr(s, ".")
      decimals == crypto_denoms[denom].decimals
  IN IF dot = 0
     THEN (mpz_set_str(prior, s).value * power(10, decimals)) * sign
     ELSE LET whole_part == mpz_set_str(0, SubSeq(s, 1, dot - 1)).value * power(10, decimals)
              after == Tail_(s, dot + 1)
              fraction_str == SubSeq(after, 1, Min(Len(after), decimals))
          IN (whole_part + mpz_set_str(0, fraction_str).value) * sign

\* The magnitude crypto_set_from_decimal stores into a value holding `prior`.
crypto_set_from_decimal(prior, denom, decimal_str) ==
  LET i0 == SkipBlank(decimal_str, 1)
      c0 == At(decimal_str, i0)
      sign == IF c0 = "-" THEN -1 ELSE 1
      i1 == IF c0 = "-" \/ c0 = "+" THEN i0 + 1 ELSE i0
      s == Tail_(decimal_str, i1)
      dot == strchr(s, ".")
      decimals == crypto_denoms[denom].decimals
  IN IF dot = 0
     THEN (mpz_set_str(prior, s).value * power(10, decimals)) * sign
     ELSE LET whole_str == SubSeq(s, 1, dot - 1)
              whole_part == mpz_set_str(0, whole_str).value * power(10, decimals)
              after == Tail_(s, dot + 1)
              n == Min(Len(after), decimals)
              fraction_str == SubSeq(after, 1, n) \o Zeros(decimals - n)
              fraction_part == mpz_set_str(0, fraction_str).value
          IN (whole_part + fraction_part) * sign

\* A formatter that appends the remainder's own digits without padding.
crypto_to_decimal_str_unpadded(value, denom, junk) ==
  LET decimals == crypto_denoms[denom].decimals
      whole_str == mpz_get_str(Abs(mpz_tdiv_q(value, power(10, decimals))))
      fraction_part == Abs(mpz_tdiv_r(value, power(10, decimals)))
      head == IF value < 0 THEN << "-" >> \o whole_str ELSE whole_str
  IN IF fraction_part # 0 THEN head \o << "." >> \o mpz_get_str(fraction_part) ELSE head

\* The string crypto_to_decimal_str returns.  When the fraction needs zero
\* padding the buffer is not NUL-terminated after the memset and the final
\* strcat scans into bytes that were never written: `junk` is the run of
\* non-NUL bytes it finds there (empty when the first such byte is NUL).
crypto_to_decimal_str(value, denom, junk) ==
  LET sign == Sgn(value)
      decimals == crypto_denoms[denom].decimals
      whole_part == Abs(mpz_tdiv_q(value, power(10, decimals)))
      fraction_part == Abs(mpz_tdiv_r(value, power(10, decimals)))
      whole_str == mpz_get_str(whole_part)
      fraction_str == mpz_get_str(fraction_part)
      head == IF sign = -1 THEN << "-" >> \o whole_str ELSE whole_str
  IN IF fraction_part # 0
     THEN IF Len(fraction_str) < decimals
          THEN head \o << "." >> \o Zeros(decimals - Len(fraction_str)) \o junk \o fraction_str
          ELSE head \o << "." >> \o fraction_str
     ELSE head

\* The result buffer of crypto_to_decimal_str, byte by byte: the size of
\* the most recent malloc or realloc, the number of bytes from the start of
\* the buffer to the last byte written, and whether the buffer held a NUL
\* inside its allocation at every strcat that scanned it.  After the memset
\* the one byte the allocation has left was never written: it is NUL when
\* `junk` is empty, and otherwise strcat scans on through `junk`.
crypto_to_decimal_str_buffer(value, denom, junk) ==
  LET sign == Sgn(value)
      decimals == crypto_denoms[denom].decimals
      fraction_part == Abs(mpz_tdiv_r(value, power(10, decimals)))
      whole_str == mpz_get_str(Abs(mpz_tdiv_q(value, power(10, decimals))))
      fraction_str == mpz_get_str(fraction_part)
      malloc_size == Len(whole_str) + Len(fraction_str) + (IF sign = -1 THEN 2 ELSE 1)
      head_len == (IF sign = -1 THEN 1 ELSE 0) + Len(whole_str)
      dot_len == head_len + 1
      padding == decimals - Len(fraction_str)
      realloc_size == dot_len + padding + 1
      append_at == dot_len + padding + Len(junk)
  IN IF fraction_part = 0
     THEN [allocated |-> malloc_size, written |-> head_len + 1, terminated |-> TRUE]
     ELSE IF Len(fraction_str) < decimals
          THEN [allocated |-> realloc_size, written |-> append_at + Len(fraction_str) + 1,
                terminated |-> junk = << >>]
          ELSE [allocated |-> malloc_size, written |-> dot_len + Len(fraction_str) + 1,
                terminated |-> TRUE]

RECURSIVE SkipWs(_, _)
SkipWs(s, i) == IF IsWs(At(s, i)) THEN SkipWs(s, i + 1) ELSE i

RECURSIVE ValidRest(_, _, _, _)
ValidRest(str, i, has_decimal, has_digit) ==
  LET c == At(str, i)
  IN IF c = NUL THEN has_digit
     ELSE IF c = "." THEN (IF has_decimal THEN FALSE ELSE ValidRest(str, i + 1, TRUE, has_digit))
     ELSE IF isdigit(c) THEN ValidRest(str, i + 1, has_decimal, TRUE)
     ELSE IF IsWs(c) THEN (IF At(str, SkipWs(str, i + 1)) # NUL THEN FALSE ELSE has_digit)
     ELSE FALSE

\* A validator that does not skip leading white space.
crypto_is_valid_decimal_no_leading(str) ==
  IF str = NULL THEN FALSE
  ELSE LET i1 == IF At(str, 1) = "+" \/ At(str, 1) = "-" THEN 2 ELSE 1
           c == At(str, i1)
       IN IF At(str, 1) = NUL THEN FALSE
          ELSE IF ~isdigit(c) /\ c # "." THEN FALSE
          ELSE ValidRest(str, i1 + 1, c = ".", isdigit(c))

crypto_is_valid_decimal(str) ==
  IF str = NULL THEN FALSE
  ELSE LET i0 == SkipWs(str, 1)
           i1 == IF At(str, i0) = "+" \/ At(str, i0) = "-" THEN i0 + 1 ELSE i0
           c == At(str, i1)
       IN IF At(str, i0) = NUL THEN FALSE
          ELSE IF ~isdigit(c) /\ c # "." THEN FALSE
          ELSE ValidRest(str, i1 + 1, c = ".", isdigit(c))

\* An addition that reads its first operand twice.
crypto_add_doubled(a, b) == a.value + a.value

crypto_add(a, b) == a.value + b.value

\* A subtraction with its operands exchanged.
crypto_sub_swapped(a, b) == b.value - a.value

crypto_sub(a, b) == a.value - b.value

crypto_mul(a, b) == a.value * b

\* mpz_cmp(op1, op2) is documented to return a positive value, zero or a
\* negative value.  The bignum library is linked, not part of the
\* repository: `impl` names what the linked library returns for unequal
\* operands, the sign of the difference ("sign") or, as the library does
\* that compares the signed limb counts first, their difference ("size");
\* the magnitudes exercised here occupy one limb.
CmpImpls == {"sign", "size"}

mpz_cmp(op1, op2, impl) ==
  IF impl = "size" /\ Sgn(op1) # Sgn(op2) THEN Sgn(op1) - Sgn(op2)
  ELSE Sgn(op1 - op2)

crypto_cmp(a, b, impl) == mpz_cmp(a.value, b.value, impl)

\* mpz_cmp_ui(op1, op2): the comparison with an unsigned long, of which
\* also only the sign is specified.
mpz_cmp_ui(op1, op2, impl) == mpz_cmp(op1, op2, impl)

\* A positivity test that also accepts zero.
crypto_gt_zero_or_equal(a, impl) == IF mpz_cmp_ui(a.value, 0, impl) >= 0 THEN 1 ELSE 0

crypto_gt_zero(a, impl) == IF mpz_cmp_ui(a.value, 0, impl) > 0 THEN 1 ELSE 0

crypto_lt_zero(a, impl) == IF mpz_cmp_ui(a.value, 0, impl) < 0 THEN 1 ELSE 0

crypto_eq_zero(a, impl) == IF mpz_cmp_ui(a.value, 0, impl) = 0 THEN 1 ELSE 0

crypto_div_truncate(a, b) == mpz_tdiv_q(a.value, b)

crypto_div_floor(a, b) == mpz_fdiv_q(a.value, b)

\* A ceiling division that rounds toward zero instead.
crypto_div_ceil_toward_zero(a, b) == mpz_tdiv_q(a.value, b)

crypto_div_ceil(a, b) == mpz_cdiv_q(a.value, b)

\* A lookup that matches the symbol alone.
crypto_get_denom_for_symbol_any_family(type, symbol) ==
  IF \E i \in 0..(DENOM_COUNT - 1) : crypto_denoms[i].symbol = symbol
  THEN CHOOSE i \in 0..(DENOM_COUNT - 1) :
        /\ crypto_denoms[i].symbol = symbol
        /\ \A j \in 0..(i - 1) : crypto_denoms[j].symbol # symbol
  ELSE DENOM_COUNT

crypto_get_denom_for_symbol(type, symbol) ==
  IF \E i \in 0..(DENOM_COUNT - 1) :
        crypto_denoms[i].crypto_type = type /\ crypto_denoms[i].symbol = symbol
  THEN CHOOSE i \in 0..(DENOM_COUNT - 1) :
        /\ crypto_denoms[i].crypto_type = type /\ crypto_denoms[i].symbol = symbol
        /\ \A j \in 0..(i - 1) :
              ~(crypto_denoms[j].crypto_type = type /\ crypto_denoms[j].symbol = symbol)
  ELSE DENOM_COUNT

crypto_get_type_for_symbol(symbol) ==
  IF \E i \in 0..(CRYPTO_COUNT - 1) : crypto_defs[i] = symbol
  THEN CHOOSE i \in 0..(CRYPTO_COUNT - 1) :
        crypto_defs[i] = symbol /\ \A j \in 0..(i - 1) : crypto_defs[j] # symbol
  ELSE CRYPTO_COUNT

\* crypto_scale_by_precision(str, &result) with *result holding `prior`:
\* the magnitude left in *result and the precision returned.
crypto_scale_by_precision(str, prior) ==
  LET whole == mpz_set_str(prior, str).value
      decimal_point == strchr(str, ".")
      after == Tail_(str, decimal_point + 1)
      precision == Len(after) % 256
      fraction == mpz_set_str(0, after).value
  IN IF decimal_point = 0 THEN [result |-> whole, precision |-> 0]
     ELSE IF fraction # 0
          THEN [result |-> whole * power(10, precision) + fraction, precision |-> precision]
          ELSE [result |-> whole, precision |-> 0]

\* ------------------------------------------------------------------------
\* crypto_decimal_extension.c: the scalar SQL functions
\* ------------------------------------------------------------------------
crypto_arithmetic_op_str ==
  [ARITHMETIC_ADD |-> "crypto_add", ARITHMETIC_SUB |-> "crypto_sub",
   ARITHMETIC_MUL |-> "crypto_mul", ARITHMETIC_DIV_TRUNC |-> "crypto_div_trunc",
   ARITHMETIC_DIV_FLOOR |-> "crypto_div_floor", ARITHMETIC_DIV_CEIL |-> "crypto_div_ceil"]

\* result_error_fmt(context, "%s: <msg>", crypto_arithmetic_op_str[op])
SqlError(op, msg) ==
  [status |-> "error", text |-> crypto_arithmetic_op_str[op] \o ": " \o msg,
   op_1 |-> 0, op_2 |-> 0, scalar |-> 0,
   precision |-> 0, value |-> 0, denom |-> DENOM_COUNT]

\* The bignum library divides by zero: the process takes a trap and
\* nothing is handed back.
SqlTrap ==
  [status |-> "trap", text |-> "", op_1 |-> 0, op_2 |-> 0, scalar |-> 0,
   precision |-> 0, value |-> 0, denom |-> DENOM_COUNT]

SqlText(str, op_1, op_2, scalar, precision, value, denom) ==
  [status |-> "text", text |-> str, op_1 |-> op_1, op_2 |-> op_2, scalar |-> scalar,
   precision |-> precision, value |-> value, denom |-> denom]

\* What crypto_addsub_sqlite hands back to SQLite for four text arguments.
crypto_addsub_sqlite(op, crypto_type_str, denom_str, op_1_str, op_2_str, junk) ==
  LET crypto_type == crypto_get_type_for_symbol(crypto_type_str)
      denom == crypto_get_denom_for_symbol(crypto_type, denom_str)
      op_1 == [crypto_init(crypto_type) EXCEPT
                 !.value = crypto_set_from_decimal(0, denom, op_1_str)]
      op_2 == [crypto_init(crypto_type) EXCEPT
                 !.value = crypto_set_from_decimal(0, denom, op_2_str)]
      value == IF op = "ARITHMETIC_ADD" THEN crypto_add(op_1, op_2) ELSE crypto_sub(op_1, op_2)
  IN IF crypto_type = CRYPTO_COUNT THEN SqlError(op, "Invalid crypto type")
     ELSE IF denom = DENOM_COUNT THEN SqlError(op, "Invalid denomination")
     ELSE IF ~crypto_is_valid_decimal(op_1_str)
          THEN SqlError(op, "Invalid decimal format for first operand")
     ELSE IF ~crypto_is_valid_decimal(op_2_str)
          THEN SqlError(op, "Invalid decimal format for second operand")
     ELSE IF op \notin {"ARITHMETIC_ADD", "ARITHMETIC_SUB"}
          THEN SqlError(op, "Invalid arithmetic operation")
     ELSE SqlText(crypto_to_decimal_str(value, denom, junk),
                  op_1.value, op_2.value, 0, 0, value, denom)

\* A zero-divisor test that covers the truncating division only.
IsDivision_truncate_only(op) == op = "ARITHMETIC_DIV_TRUNC"

IsDivision(op) ==
  op = "ARITHMETIC_DIV_TRUNC" \/ op = "ARITHMETIC_DIV_FLOOR" \/ op = "ARITHMETIC_DIV_CEIL"

\* A multiplication path that rescales with the floor quotient.
MulDivValue_floor(op, op_1, scalar, rescale) ==
  CASE op = "ARITHMETIC_MUL" ->
         mpz_fdiv_q(crypto_mul(op_1, scalar), rescale)
    [] op = "ARITHMETIC_DIV_TRUNC" ->
         crypto_div_truncate([op_1 EXCEPT !.value = op_1.value * rescale], scalar)
    [] op = "ARITHMETIC_DIV_FLOOR" ->
         crypto_div_floor([op_1 EXCEPT !.value = op_1.value * rescale], scalar)
    [] op = "ARITHMETIC_DIV_CEIL" ->
         crypto_div_ceil([op_1 EXCEPT !.value = op_1.value * rescale], scalar)

\* The magnitude crypto_muldiv_sqlite leaves in op_1 for an operation.
MulDivValue(op, op_1, scalar, rescale) ==
  CASE op = "ARITHMETIC_MUL" ->
         mpz_tdiv_q(crypto_mul(op_1, scalar), rescale)
    [] op = "ARITHMETIC_DIV_TRUNC" ->
         crypto_div_truncate([op_1 EXCEPT !.value = op_1.value * rescale], scalar)
    [] op = "ARITHMETIC_DIV_FLOOR" ->
         crypto_div_floor([op_1 EXCEPT !.value = op_1.value * rescale], scalar)
    [] op = "ARITHMETIC_DIV_CEIL" ->
         crypto_div_ceil([op_1 EXCEPT !.value = op_1.value * rescale], scalar)

\* What crypto_muldiv_sqlite hands back to SQLite for four text arguments.
crypto_muldiv_sqlite(op, crypto_type_str, denom_str, op_1_str, op_2_str, junk) ==
  LET crypto_type == crypto_get_type_for_symbol(crypto_type_str)
      denom == crypto_get_denom_for_symbol(crypto_type, denom_str)
      op_1 == [crypto_init(crypto_type) EXCEPT
                 !.value = crypto_set_from_decimal(0, denom, op_1_str)]
      sc == crypto_scale_by_precision(op_2_str, 0)
      rescale == power(10, sc.precision)
      value == MulDivValue(op, op_1, sc.result, rescale)
  IN IF crypto_type = CRYPTO_COUNT THEN SqlError(op, "Invalid crypto type")
     ELSE IF denom = DENOM_COUNT THEN SqlError(op, "Invalid denomination")
     ELSE IF ~crypto_is_valid_decimal(op_1_str)
          THEN SqlError(op, "Invalid decimal format for first operand")
     ELSE IF ~crypto_is_valid_decimal(op_2_str)
          THEN SqlError(op, "Invalid decimal format for second operand")
     ELSE IF IsDivision(op) /\ sc.result = 0 THEN SqlError(op, "Division by zero")
     ELSE IF op \notin {"ARITHMETIC_MUL", "ARITHMETIC_DIV_TRUNC", "ARITHMETIC_DIV_FLOOR",
                        "ARITHMETIC_DIV_CEIL"}
          THEN SqlError(op, "Invalid arithmetic operation")
     ELSE IF op # "ARITHMETIC_MUL" /\ sc.result = 0 THEN SqlTrap
     ELSE SqlText(crypto_to_decimal_str(value, denom, junk),
                  op_1.value, 0, sc.result, sc.precision, value, denom)

\* sqlite3_result_error with a fixed message
SqlErrorText(msg) ==
  [status |-> "error", text |-> msg, op_1 |-> 0, op_2 |-> 0, scalar |-> 0,
   precision |-> 0, value |-> 0, denom |-> DENOM_COUNT]

\* sqlite3_result_null
SqlNull ==
  [status |-> "null", text |-> "", op_1 |-> 0, op_2 |-> 0, scalar |-> 0,
   precision |-> 0, value |-> 0, denom |-> DENOM_COUNT]

\* The function returns without setting a result.
SqlNone ==
  [status |-> "none", text |-> "", op_1 |-> 0, op_2 |-> 0, scalar |-> 0,
   precision |-> 0, value |-> 0, denom |-> DENOM_COUNT]

\* sqlite3_result_int
SqlInt(n, op_1, op_2, denom) ==
  [status |-> "int", text |-> "", op_1 |-> op_1, op_2 |-> op_2, scalar |-> 0,
   precision |-> 0, value |-> n, denom |-> denom]

\* An assertion of the engine fails inside the SQL function: the process
\* aborts and nothing is handed back.
SqlAbort(fn) ==
  [status |-> "abort", text |-> fn, op_1 |-> 0, op_2 |-> 0, scalar |-> 0,
   precision |-> 0, value |-> 0, denom |-> DENOM_COUNT]

\* What crypto_cmp_sqlite hands back to SQLite for four text arguments.
crypto_cmp_sqlite(crypto_type_str, denom_str, op_1_str, op_2_str, impl) ==
  LET crypto_type == crypto_get_type_for_symbol(crypto_type_str)
      denom == crypto_get_denom_for_symbol(crypto_type, denom_str)
      op_1 == [crypto_init(crypto_type) EXCEPT
                 !.value = crypto_set_from_decimal(0, denom, op_1_str)]
      op_2 == [crypto_init(crypto_type) EXCEPT
                 !.value = crypto_set_from_decimal(0, denom, op_2_str)]
  IN IF op_1_str = NULL \/ op_2_str = NULL THEN SqlErrorText("crypto_cmp: Invalid arguments")
     ELSE IF crypto_type = CRYPTO_COUNT THEN SqlErrorText("crypto_cmp: Invalid crypto type")
     ELSE IF denom = DENOM_COUNT THEN SqlErrorText("crypto_cmp: Invalid denomination")
     ELSE IF ~crypto_is_valid_decimal(op_1_str)
          THEN SqlErrorText("crypto_cmp: Invalid decimal format for first operand")
     ELSE IF ~crypto_is_valid_decimal(op_2_str)
          THEN SqlErrorText("crypto_cmp: Invalid decimal format for second operand")
     ELSE SqlInt(crypto_cmp(op_1, op_2, impl), op_1.value, op_2.value, denom)

\* What crypto_scale_sqlite hands back to SQLite for four arguments.
crypto_scale_sqlite(crypto_type_str, from_denom_str, to_denom_str, operand_str, junk) ==
  LET crypto_type == crypto_get_type_for_symbol(crypto_type_str)
      from_denom == crypto_get_denom_for_symbol(crypto_type, from_denom_str)
      to_denom_ == crypto_get_denom_for_symbol(crypto_type, to_denom_str)
      a == crypto_set_from_decimal(0, from_denom, operand_str)
  IN IF operand_str = NULL THEN SqlNull
     ELSE IF crypto_type = CRYPTO_COUNT THEN SqlErrorText("crypto_scale: Invalid crypto type")
     ELSE IF from_denom = DENOM_COUNT
          THEN SqlErrorText("crypto_scale: Invalid from denomination")
     ELSE IF to_denom_ = DENOM_COUNT
          THEN SqlErrorText("crypto_scale: Invalid to denomination")
     ELSE SqlText(crypto_to_decimal_str(a, to_denom_, junk), a, 0, 0, 0, a, to_denom_)

\* crypto_set(dest, src): the magnitude dest holds afterwards.
crypto_set(dest, src_) == src_.value

\* The tail of an aggregate step (fn names the aggregate): the parsed
\* operand is folded into the aggregate context p, which the first row
\* seeds.
crypto_agg_accumulate(fn, p, crypto_type, final_denom, operand, impl) ==
  LET seeded == [fn |-> fn, initialized |-> 1, final_denom |-> final_denom,
                 acc |-> IF fn = "crypto_sum" THEN crypto_init(crypto_type)
                         ELSE [crypto_init(crypto_type) EXCEPT
                                 !.value = crypto_set(crypto_init(crypto_type), operand)]]
      q == IF p.initialized = 0 THEN seeded ELSE p
      replaces == IF fn = "crypto_max" THEN crypto_cmp(operand, p.acc, impl) > 0
                  ELSE crypto_cmp(operand, p.acc, impl) < 0
  IN IF fn = "crypto_sum"
     THEN IF operand.crypto_type # q.acc.crypto_type
          THEN [ret |-> SqlAbort("crypto_add"), p |-> q]
          ELSE [ret |-> SqlNone,
                p |-> [q EXCEPT !.acc.value = crypto_add(operand, q.acc)]]
     ELSE IF p.initialized = 0 THEN [ret |-> SqlNone, p |-> seeded]
     ELSE IF operand.crypto_type # p.acc.crypto_type
          THEN [ret |-> SqlAbort("crypto_cmp"), p |-> p]
     ELSE [ret |-> SqlNone,
           p |-> IF replaces THEN [p EXCEPT !.acc.value = crypto_set(p.acc, operand)] ELSE p]

\* One row of crypto_sum, crypto_max or crypto_min (fn names the aggregate)
\* on the aggregate context p: what the step reports and the context it
\* leaves.
crypto_agg_step(fn, p, crypto_type_str, operand_denom_str, final_denom_str, operand_str, impl) ==
  LET crypto_type == crypto_get_type_for_symbol(crypto_type_str)
      final_denom == crypto_get_denom_for_symbol(crypto_type, final_denom_str)
      operand_denom == crypto_get_denom_for_symbol(crypto_type, operand_denom_str)
  IN IF operand_str = NULL THEN [ret |-> SqlNone, p |-> p]
     ELSE IF ~crypto_is_valid_decimal(operand_str) THEN [ret |-> SqlNone, p |-> p]
     ELSE IF crypto_type = CRYPTO_COUNT
          THEN [ret |-> SqlErrorText(fn \o ": Invalid crypto type"), p |-> p]
     ELSE IF final_denom = DENOM_COUNT
          THEN [ret |-> SqlErrorText(fn \o ": Invalid final denomination"), p |-> p]
     ELSE IF operand_denom = DENOM_COUNT
          THEN [ret |-> SqlErrorText(fn \o ": Invalid operand denomination"), p |-> p]
     ELSE crypto_agg_accumulate(
            fn, p, crypto_type, final_denom,
            [crypto_init(crypto_type) EXCEPT
               !.value = crypto_set_from_decimal(0, operand_denom, operand_str)],
            impl)

\* A final function that formats the accumulator whether or not a step
\* initialised it.
crypto_agg_final_unguarded(p, junk) ==
  SqlText(crypto_to_decimal_str(p.acc.value, p.final_denom, junk),
          0, 0, 0, 0, p.acc.value, p.final_denom)

\* What crypto_sum_final, crypto_max_final or crypto_min_final hands back
\* for the aggregate context p (zero-filled when no step created it).
crypto_agg_final(p, junk) ==
  IF p.initialized = 0 THEN SqlNull
  ELSE SqlText(crypto_to_decimal_str(p.acc.value, p.final_denom, junk),
               0, 0, 0, 0, p.acc.value, p.final_denom)

\* ------------------------------------------------------------------------
\* Inputs
\* ------------------------------------------------------------------------
Alphabet == {"0", "5", ".", "-", "+", " ", "\t"}

\* The characters of the enumerated operands of arithmetic calls.
ArithAlphabet == {"0", "5", ".", "-"}

StringsOver(chars, n) == UNION {[1..k -> chars] : k \in 0..n}

\* Operand strings of the repository's tests and of the specification's
\* scenarios, checked besides the enumerated ones.
ScenarioStrings ==
  { << "1" >>, << "3" >>, << "0", ".", "5" >>, << "-", "5" >>, << "-", "0", ".", "5" >>,
    << "5", "0", "0", "0", "0", "0", "0", "0" >>,
    << "5", "0", "0", "0", "0", "0" >>,
    << "1", ".", "2", "3", "4", "5", "6", "7", "8", "9" >>,
    << "1", ".", "2", "3", "4", "5", "6", "7", "8", "9", "0", "1", "2", "3", "4", "5",
       "6", "7", "8", "9", "0", "1", "2", "3", "4", "5", "6", "7", "8", "9", "0", "1",
       "2", "3", "4", "5", "6", "7", "8", "9" >> }

\* The strings test_decimal_validation passes to the validator, and the
\* NULL pointer.
ValidatorExamples ==
  { << "1", "2", "3", ".", "4", "5", ".", "6", "7" >>,
    << "1", "2", "3", " ", "4", "5", "6" >>,
    << "1", "2", "3", "a", "b", "c" >>,
    << "-", ".", "0", "1" >>,
    << "+", "1", "2", "3" >>,
    << " ", " ", "-", "1", "2", "3", ".", "4", "5", " ", " " >>,
    NULL }

\* The spellings of zero test_zero_comparison parses, and zero written with
\* eight fraction digits.
ZeroStrings ==
  { << "0" >>, << "-", "0" >>,
    << "0", ".", "0", "0", "0", "0", "0", "0", "0", "0" >> }

OperandStrings ==
  StringsOver(Alphabet, MaxLen) \cup ScenarioStrings \cup ValidatorExamples \cup ZeroStrings

Operand1Strings == StringsOver(ArithAlphabet, MaxLen1) \cup ScenarioStrings

Operand2Strings == StringsOver(ArithAlphabet, MaxLen2) \cup ScenarioStrings

\* An operand the validator rejects, and the operands of aggregate rows.
RejectedOperand == << "a", "b", "c" >>

AggOperands == { << "1" >>, << "-", "5" >>, << "0", ".", "5" >>, RejectedOperand, NULL }

\* The rows an aggregation is stepped with, as << crypto, operand
\* denomination, final denomination, operand >>: bitcoin rows under two
\* denominations with every operand, ether rows, rows of a family no
\* registry entry has, rows with a denomination of another or of no family.
AggRows ==
  {<< "BTC", od, fd, o >> : od \in {"BTC", "SAT"}, fd \in {"BTC", "SAT"}, o \in AggOperands}
  \cup {<< "ETH", "WEI", "WEI", o >> : o \in {<< "1" >>, << "-", "5" >>}}
  \cup {<< "NOPE", "BTC", "BTC", o >> : o \in {<< "1" >>, RejectedOperand, NULL}}
  \cup {<< "BTC", "WEI", "BTC", o >> : o \in {<< "1" >>, NULL}}
  \cup {<< "BTC", "BTC", "NOPE", << "1" >> >>}

\* What the never-written heap bytes may hold when the formatter's strcat
\* scans them: a NUL at once, or one non-NUL byte before it.
HeapJunk == { << >>, << "?" >> }

\* The denominations the client passes: those of the instantiated families
\* and the out-of-range index DENOM_COUNT.
CallDenoms ==
  {d \in 0..(DENOM_COUNT - 1) : crypto_denoms[d].crypto_type <= MaxType} \cup {DENOM_COUNT}

\* The digits of str that precede its first '.', or all of them.
WholeDigits(str) ==
  LET dot == strchr(str, ".")
      n == IF dot = 0 THEN Len(str) ELSE dot - 1
  IN Cardinality({k \in 1..n : isdigit(str[k])})

AllDigits(str) == Cardinality({k \in 1..Len(str) : isdigit(str[k])})

\* The parsed magnitude stays below 10^MagnitudeDigits.
FitsParse(str, denom) ==
  WholeDigits(str) + crypto_denoms[denom].decimals <= MagnitudeDigits

FitsFormat(denom) == crypto_denoms[denom].decimals <= MagnitudeDigits

FitsProduct(x, y) ==
  IF x = 0 THEN TRUE ELSE Abs(y) <= power(10, MagnitudeDigits) \div Abs(x)

\* The family and denomination symbols the SQL functions are called with:
\* those of the instantiated families and one that no registry entry has.
SqlTypeSyms == {crypto_defs[t] : t \in 0..MaxType} \cup {"NOPE"}

SqlDenomSyms ==
  {crypto_denoms[i].symbol :
     i \in {j \in 0..(DENOM_COUNT - 1) : crypto_denoms[j].crypto_type <= MaxType}}
  \cup {"NOPE"}

\* The families and symbols crypto_get_denom_for_symbol is called with:
\* every family, every symbol of the registry, symbols in another case
\* and symbols no entry has.
LookupSymbols ==
  {crypto_denoms[i].symbol : i \in 0..(DENOM_COUNT - 1)}
  \cup {"sat", "Sat", "gwei", "btc", "BTC ", "", "NOPE"}

\* The operand of an aggregate row or of crypto_scale stays inside the
\* exercised magnitudes.
RowFits(crypto_type_str, operand_denom_str, final_denom_str, operand_str) ==
  LET crypto_type == crypto_get_type_for_symbol(crypto_type_str)
      operand_denom == crypto_get_denom_for_symbol(crypto_type, operand_denom_str)
      final_denom == crypto_get_denom_for_symbol(crypto_type, final_denom_str)
  IN IF operand_str = NULL THEN TRUE
     ELSE IF crypto_type = CRYPTO_COUNT THEN TRUE
     ELSE IF operand_denom = DENOM_COUNT THEN TRUE
     ELSE IF final_denom = DENOM_COUNT THEN TRUE
     ELSE FitsParse(operand_str, operand_denom) /\ FitsFormat(final_denom)

\* The operands of an SQL call stay inside the exercised magnitudes.
SqlFits(op, crypto_type_str, denom_str, op_1_str, op_2_str) ==
  LET crypto_type == crypto_get_type_for_symbol(crypto_type_str)
      denom == crypto_get_denom_for_symbol(crypto_type, denom_str)
      op_1 == crypto_set_from_decimal(0, denom, op_1_str)
      sc == crypto_scale_by_precision(op_2_str, 0)
  IN IF crypto_type = CRYPTO_COUNT THEN TRUE
     ELSE IF denom = DENOM_COUNT THEN TRUE
     ELSE IF ~crypto_is_valid_decimal(op_1_str) \/ ~crypto_is_valid_decimal(op_2_str)
          THEN TRUE
     ELSE /\ FitsFormat(denom)
          /\ FitsParse(op_1_str, denom)
          /\ IF op \in {"ARITHMETIC_ADD", "ARITHMETIC_SUB"}
             THEN FitsParse(op_2_str, denom)
             ELSE /\ AllDigits(op_2_str) <= MagnitudeDigits
                  /\ IF op = "ARITHMETIC_MUL"
                     THEN FitsProduct(op_1, sc.result)
                     ELSE FitsProduct(op_1, power(10, sc.precision))

\* ------------------------------------------------------------------------
\* Reference notions the properties are stated with
\* ------------------------------------------------------------------------
Pow10(n) == 10 ^ n

\* The number a sequence of digit characters denotes (0 for none).
RECURSIVE RefNat(_)
RefNat(ds) ==
  IF ds = << >> THEN 0
  ELSE RefNat(SubSeq(ds, 1, Len(ds) - 1)) * 10 + DigitVal(ds[Len(ds)])

RefBody(str) == IF str # << >> /\ str[1] \in {"+", "-"} THEN Tail(str) ELSE str

\* [sign] digits ['.' digits], at least one digit, no white space
PlainDecimal(str) ==
  LET body == RefBody(str)
  IN /\ \A k \in 1..Len(body) : isdigit(body[k]) \/ body[k] = "."
     /\ Cardinality({k \in 1..Len(body) : body[k] = "."}) <= 1
     /\ \E k \in 1..Len(body) : isdigit(body[k])

RefSign(str) == IF str # << >> /\ str[1] = "-" THEN -1 ELSE 1

RefWholeDigits(str) ==
  LET body == RefBody(str)
      dot == strchr(body, ".")
  IN IF dot = 0 THEN body ELSE SubSeq(body, 1, dot - 1)

RefFracDigits(str) ==
  LET body == RefBody(str)
      dot == strchr(body, ".")
  IN IF dot = 0 THEN << >> ELSE SubSeq(body, dot + 1, Len(body))

\* The fraction digits right-padded with '0' to e digits, or cut to e digits.
RefFraction(fs, e) == RefNat([i \in 1..e |-> IF i <= Len(fs) THEN fs[i] ELSE "0"])

RefParse(str, d) ==
  LET e == crypto_denoms[d].decimals
  IN RefSign(str) * (RefNat(RefWholeDigits(str)) * Pow10(e) + RefFraction(RefFracDigits(str), e))

\* str without its leading and trailing space, tab, CR and LF
Trim(str) ==
  LET keep == {k \in 1..Len(str) : ~IsWs(str[k])}
  IN IF keep = {} THEN << >>
     ELSE SubSeq(str, CHOOSE k \in keep : \A j \in keep : k <= j,
                      CHOOSE k \in keep : \A j \in keep : k >= j)

RefDigits(n) == IF n = 0 THEN << "0" >> ELSE
  [i \in 1..(CHOOSE k \in 1..10 : Pow10(k - 1) <= n /\ (k = 10 \/ n < Pow10(k))) |->
     DigitChars[((n \div Pow10((CHOOSE k \in 1..10 : Pow10(k - 1) <= n /\ (k = 10 \/ n < Pow10(k))) - i)) % 10) + 1]]

\* quotient, '.', remainder left-padded to e digits; the quotient alone when
\* the remainder is zero; '-' in front of a negative value
RefFormat(v, d) ==
  LET e == crypto_denoms[d].decimals
      q == Abs(v) \div Pow10(e)
      r == Abs(v) % Pow10(e)
      rs == RefDigits(r)
      body == IF r = 0 THEN RefDigits(q)
              ELSE RefDigits(q) \o << "." >> \o Zeros(e - Len(rs)) \o rs
  IN IF v < 0 THEN << "-" >> \o body ELSE body

LongFraction ==
  << "1", ".", "2", "3", "4", "5", "6", "7", "8", "9", "0", "1", "2", "3", "4", "5",
     "6", "7", "8", "9", "0", "1", "2", "3", "4", "5", "6", "7", "8", "9", "0", "1",
     "2", "3", "4", "5", "6", "7", "8", "9" >>

\* The strings of the decimal grammar, white space around them allowed.
RefValid(str) == str # NULL /\ PlainDecimal(Trim(str))

\* The registry entries of family f whose symbol is exactly s.
Entries(f, s) ==
  {d \in 0..(DENOM_COUNT - 1) :
     crypto_denoms[d].crypto_type = f /\ crypto_denoms[d].symbol = s}

\* ------------------------------------------------------------------------
\* State
\* ------------------------------------------------------------------------
VARIABLES
  pc,             \* where the client of the engine stands
  val,            \* the client's first crypto_val_t
  decimal_str,    \* the string the client validated and parsed into val
  valid,          \* what crypto_is_valid_decimal(decimal_str) returned
  denom,          \* the denomination val was parsed under
  b,              \* the client's second crypto_val_t
  b_str,          \* the string parsed into b
  b_denom,        \* the denomination b was parsed under
  result,         \* the client's result crypto_val_t
  call,           \* the last arithmetic call: function, operands, destination
  src,            \* the object the next crypto_to_decimal_str formats
  to_denom,       \* the denomination of the last crypto_to_decimal_str
  formatted_str,  \* the string crypto_to_decimal_str returned
  back,           \* a fresh crypto_val_t parsed from formatted_str
  scale,          \* what crypto_scale_by_precision(decimal_str) produced
  fault,          \* the failed assertion, when the process aborted
  sql,            \* the last call of an SQL function and what it returned
  lookup,         \* the last crypto_get_denom_for_symbol call and its result
  agg,            \* the aggregate context SQLite keeps for the running aggregation
  fed             \* the rows the running aggregation was given, folded by the reference

vars == << pc, val, decimal_str, valid, denom, b, b_str, b_denom, result, call, src,
           to_denom, formatted_str, back, scale, fault, sql, lookup, agg, fed >>

\* A crypto_val_t before crypto_init
NoVal == [crypto_type |-> CRYPTO_COUNT, value |-> 0]

NoCall == [fn |-> "none"]
NoScale == [result |-> 0, precision |-> 0, done |-> FALSE]
NoSql == [fn |-> "none"]
NoLookup == [type |-> CRYPTO_COUNT, symbol |-> "", ret |-> DENOM_COUNT, done |-> FALSE]

\* No row yet: the number of step calls, the number of rows that
\* contributed an operand, the reference fold of their magnitudes and the
\* final denominations they named.
NoFed == [rows |-> 0, used |-> 0, ref |-> 0, finals |-> {}, seed |-> ""]

\* The zero-filled context sqlite3_aggregate_context hands out first.
NoAgg == [fn |-> "none", initialized |-> 0, acc |-> NoVal, final_denom |-> 0]

Init ==
  /\ pc = "start"
  /\ val = NoVal
  /\ b = NoVal
  /\ result = NoVal
  /\ back = NoVal
  /\ decimal_str = << >>
  /\ valid = FALSE
  /\ denom = DENOM_COUNT
  /\ b_str = << >>
  /\ b_denom = DENOM_COUNT
  /\ call = NoCall
  /\ src = "val"
  /\ to_denom = DENOM_COUNT
  /\ formatted_str = NULL
  /\ scale = NoScale
  /\ fault = "none"
  /\ sql = NoSql
  /\ lookup = NoLookup
  /\ agg = NoAgg
  /\ fed = NoFed

\* A failed assert() ends the process: nothing of its state remains.
Abort(fn) ==
  /\ pc' = "aborted"
  /\ fault' = fn
  /\ val' = NoVal /\ b' = NoVal /\ result' = NoVal /\ back' = NoVal
  /\ decimal_str' = << >> /\ valid' = FALSE /\ denom' = DENOM_COUNT
  /\ b_str' = << >> /\ b_denom' = DENOM_COUNT /\ call' = NoCall /\ src' = "val"
  /\ to_denom' = DENOM_COUNT /\ formatted_str' = NULL /\ scale' = NoScale
  /\ sql' = NoSql /\ lookup' = NoLookup /\ agg' = NoAgg /\ fed' = NoFed

\* A failed assert() of the engine in function args.fn: the process is
\* ended as by Abort; call keeps the arguments the client had passed.
AssertFailed(args) ==
  /\ pc' = "aborted"
  /\ fault' = args.fn
  /\ call' = args
  /\ val' = NoVal /\ b' = NoVal /\ result' = NoVal /\ back' = NoVal
  /\ decimal_str' = << >> /\ valid' = FALSE /\ denom' = DENOM_COUNT
  /\ b_str' = << >> /\ b_denom' = DENOM_COUNT /\ src' = "val"
  /\ to_denom' = DENOM_COUNT /\ formatted_str' = NULL /\ scale' = NoScale
  /\ sql' = NoSql /\ lookup' = NoLookup /\ agg' = NoAgg /\ fed' = NoFed

\* The arguments of a crypto_set_from_decimal or crypto_to_decimal_str
\* call: whether the value pointer is NULL, the family of the value, the
\* denomination, whether the string pointer is NULL.
DenomCall(fn, val_null, v, d, str_null) ==
  [fn |-> fn, val_null |-> val_null,
   crypto_type |-> IF val_null THEN CRYPTO_COUNT ELSE v.crypto_type,
   denom |-> d, str_null |-> str_null]

\* The arguments of a crypto_add, crypto_sub or crypto_cmp call: the
\* families of r, a and b (crypto_cmp has no r).
FamilyCall(fn, r_type, a_type, b_type) ==
  [fn |-> fn, r_type |-> r_type, a_type |-> a_type, b_type |-> b_type]

\* The family assertions of crypto_add and crypto_sub.
ArithAsserts(r, a, b_) ==
  a.crypto_type = b_.crypto_type /\ r.crypto_type = a.crypto_type

\* The family assertion of crypto_cmp.
CmpAsserts(a, b_) == a.crypto_type = b_.crypto_type

\* Assertions that leave out the comparison of the families.
DenomAsserts_any_family(v, d) == crypto_is_valid_denom(d)

\* The assertions crypto_set_from_decimal and crypto_to_decimal_str make
\* about the value and the denomination they are given.
DenomAsserts(v, d) ==
  crypto_is_valid_denom(d) /\ v.crypto_type = crypto_denoms[d].crypto_type

\* ------------------------------------------------------------------------
\* The engine's client: one action per call of the engine
\* ------------------------------------------------------------------------
Call_crypto_is_valid_decimal ==
  /\ pc = "start"
  /\ \E str \in OperandStrings :
        /\ decimal_str' = str
        /\ valid' = crypto_is_valid_decimal(str)
  /\ pc' = "validated"
  /\ UNCHANGED << val, denom, b, b_str, b_denom, result, call, src, to_denom,
                  formatted_str, back, scale, fault, sql, lookup, agg, fed >>

\* The client initialises its values, all of one family.
Call_crypto_init ==
  /\ pc = "validated"
  /\ valid
  /\ \E type \in 0..MaxType :
        /\ crypto_is_valid_type(type)
        /\ val' = crypto_init(type)
        /\ b' = crypto_init(type)
        /\ result' = crypto_init(type)
        /\ back' = crypto_init(type)
  /\ pc' = "ready"
  /\ UNCHANGED << decimal_str, valid, denom, b_str, b_denom, call, src, to_denom,
                  formatted_str, scale, fault, sql, lookup, agg, fed >>

\* crypto_set_from_decimal(v, d, str) with v = &val or NULL and str =
\* decimal_str or NULL.
Call_crypto_set_from_decimal ==
  /\ pc = "ready"
  /\ \E d \in CallDenoms, val_null \in BOOLEAN, str \in {decimal_str, NULL} :
        IF val_null \/ str = NULL \/ ~DenomAsserts(val, d)
        THEN AssertFailed(DenomCall("crypto_set_from_decimal", val_null, val, d,
                                    str = NULL))
        ELSE /\ FitsParse(decimal_str, d)
             /\ val' = [val EXCEPT !.value = crypto_set_from_decimal(val.value, d, decimal_str)]
             /\ denom' = d
             /\ src' = "val"
             /\ pc' = "parsed"
             /\ UNCHANGED << decimal_str, valid, b, b_str, b_denom, result, call, to_denom,
                             formatted_str, back, scale, fault, sql, lookup, agg, fed >>

\* The strings a value that already holds a magnitude is parsed from again.
ReparseStrings ==
  { << "7" >>, << "-", "7" >>, << "+", "7" >>, << "0", ".", "5" >>, << " ", "7" >>,
    << "\t", "7" >>, << "\t", "+", "7" >>, << "\t", "-", "7" >>, << "\n", "+", "7" >>,
    << "7", " " >>, << ".", "5" >>, << "x" >> }

\* crypto_set_from_decimal on a value that was parsed before and holds a
\* magnitude of one digit: the destination is not cleared between the calls.
Call_crypto_set_from_decimal_again ==
  /\ pc = "parsed"
  /\ src = "val"
  /\ Abs(val.value) < 10
  /\ \E d \in CallDenoms, str \in ReparseStrings :
        /\ DenomAsserts(val, d)
        /\ 1 + crypto_denoms[d].decimals <= MagnitudeDigits
        /\ FitsParse(str, d)
        /\ val' = [val EXCEPT !.value = crypto_set_from_decimal(val.value, d, str)]
        /\ call' = [fn |-> "crypto_set_from_decimal", prior |-> val.value, denom |-> d,
                    decimal_str |-> str, valid |-> crypto_is_valid_decimal(str)]
  /\ pc' = "parsed_again"
  /\ UNCHANGED << decimal_str, valid, denom, b, b_str, b_denom, result, src, to_denom,
                  formatted_str, back, scale, fault, sql, lookup, agg, fed >>

Call_crypto_scale_by_precision ==
  /\ pc = "validated"
  /\ valid
  /\ AllDigits(decimal_str) <= MagnitudeDigits
  /\ scale' = [result |-> crypto_scale_by_precision(decimal_str, 0).result,
               precision |-> crypto_scale_by_precision(decimal_str, 0).precision,
               done |-> TRUE]
  /\ pc' = "scaled"
  /\ UNCHANGED << val, decimal_str, valid, denom, b, b_str, b_denom, result, call, src,
                  to_denom, formatted_str, back, fault, sql, lookup, agg, fed >>

\* The client initialises b or result once more, for another family
\* than val's.
Call_crypto_init_other ==
  /\ pc = "parsed"
  /\ decimal_str \in Operand1Strings
  /\ \E type \in 0..MaxType, which \in {"b", "result"} :
        /\ crypto_is_valid_type(type)
        /\ type # val.crypto_type
        /\ IF which = "b"
           THEN b' = crypto_init(type) /\ result' = result
           ELSE result' = crypto_init(type) /\ b' = b
  /\ pc' = "mixed"
  /\ UNCHANGED << val, decimal_str, valid, denom, b_str, b_denom, call, src, to_denom,
                  formatted_str, back, scale, fault, sql, lookup, agg, fed >>

Call_crypto_set_from_decimal_b ==
  /\ pc \in {"parsed", "mixed"}
  /\ decimal_str \in Operand1Strings
  /\ \E str \in Operand2Strings, d \in CallDenoms :
        /\ crypto_is_valid_decimal(str)
        /\ IF ~DenomAsserts(b, d)
           THEN AssertFailed(DenomCall("crypto_set_from_decimal", FALSE, b, d, FALSE))
           ELSE /\ FitsParse(str, d)
                /\ b' = [b EXCEPT !.value = crypto_set_from_decimal(b.value, d, str)]
                /\ b_str' = str
                /\ b_denom' = d
                /\ pc' = "parsed2"
                /\ UNCHANGED << val, decimal_str, valid, denom, result, call, src,
                                to_denom, formatted_str, back, scale, fault, sql, lookup,
                                agg, fed >>

\* crypto_add(r, a, b) with a = &val, b = &b and r either &result or, as
\* the SQL layer calls it, &val itself.
Call_crypto_add ==
  /\ pc = "parsed2"
  /\ \E dest \in {"result", "val"} :
        IF ~ArithAsserts(IF dest = "result" THEN result ELSE val, val, b)
        THEN AssertFailed(FamilyCall("crypto_add",
                                     IF dest = "result" THEN result.crypto_type
                                     ELSE val.crypto_type,
                                     val.crypto_type, b.crypto_type))
        ELSE /\ call' = [fn |-> "crypto_add", a |-> val.value, b |-> b.value, dest |-> dest]
             /\ src' = dest
             /\ IF dest = "result"
                THEN result' = [result EXCEPT !.value = crypto_add(val, b)] /\ val' = val
                ELSE val' = [val EXCEPT !.value = crypto_add(val, b)] /\ result' = result
             /\ pc' = "computed"
             /\ UNCHANGED << decimal_str, valid, denom, b, b_str, b_denom, to_denom,
                             formatted_str, back, scale, fault, sql, lookup, agg, fed >>

Call_crypto_sub ==
  /\ pc = "parsed2"
  /\ \E dest \in {"result", "val"} :
        IF ~ArithAsserts(IF dest = "result" THEN result ELSE val, val, b)
        THEN AssertFailed(FamilyCall("crypto_sub",
                                     IF dest = "result" THEN result.crypto_type
                                     ELSE val.crypto_type,
                                     val.crypto_type, b.crypto_type))
        ELSE /\ call' = [fn |-> "crypto_sub", a |-> val.value, b |-> b.value, dest |-> dest]
             /\ src' = dest
             /\ IF dest = "result"
                THEN result' = [result EXCEPT !.value = crypto_sub(val, b)] /\ val' = val
                ELSE val' = [val EXCEPT !.value = crypto_sub(val, b)] /\ result' = result
             /\ pc' = "computed"
             /\ UNCHANGED << decimal_str, valid, denom, b, b_str, b_denom, to_denom,
                             formatted_str, back, scale, fault, sql, lookup, agg, fed >>

Call_crypto_cmp ==
  /\ pc = "parsed2"
  /\ IF ~CmpAsserts(val, b)
     THEN AssertFailed(FamilyCall("crypto_cmp", CRYPTO_COUNT, val.crypto_type,
                                  b.crypto_type))
     ELSE /\ \E impl \in CmpImpls :
                call' = [fn |-> "crypto_cmp", a |-> val.value, b |-> b.value,
                         ret |-> crypto_cmp(val, b, impl)]
          /\ pc' = "compared"
          /\ UNCHANGED << val, decimal_str, valid, denom, b, b_str, b_denom, result, src,
                          to_denom, formatted_str, back, scale, fault, sql, lookup, agg, fed >>

\* The client tests the sign of the parsed value with the three
\* predicates in turn; call collects what they returned.
Call_crypto_eq_zero ==
  /\ pc = "parsed"
  /\ \E impl \in CmpImpls :
        call' = [fn |-> "crypto_eq_zero", a |-> val.value, eq |-> crypto_eq_zero(val, impl)]
  /\ pc' = "eq_tested"
  /\ UNCHANGED << val, decimal_str, valid, denom, b, b_str, b_denom, result, src, to_denom,
                  formatted_str, back, scale, fault, sql, lookup, agg, fed >>

Call_crypto_gt_zero ==
  /\ pc = "eq_tested"
  /\ \E impl \in CmpImpls :
        call' = [fn |-> "crypto_gt_zero", a |-> val.value, eq |-> call.eq,
                 gt |-> crypto_gt_zero(val, impl)]
  /\ pc' = "gt_tested"
  /\ UNCHANGED << val, decimal_str, valid, denom, b, b_str, b_denom, result, src, to_denom,
                  formatted_str, back, scale, fault, sql, lookup, agg, fed >>

Call_crypto_lt_zero ==
  /\ pc = "gt_tested"
  /\ \E impl \in CmpImpls :
        call' = [fn |-> "crypto_lt_zero", a |-> val.value, eq |-> call.eq, gt |-> call.gt,
                 lt |-> crypto_lt_zero(val, impl)]
  /\ pc' = "sign_tested"
  /\ UNCHANGED << val, decimal_str, valid, denom, b, b_str, b_denom, result, src, to_denom,
                  formatted_str, back, scale, fault, sql, lookup, agg, fed >>

Source == IF src = "val" THEN val ELSE result

Call_crypto_to_decimal_str ==
  /\ pc \in {"parsed", "computed"}
  /\ \E d \in CallDenoms, val_null \in BOOLEAN :
        IF val_null \/ ~DenomAsserts(Source, d)
        THEN AssertFailed(DenomCall("crypto_to_decimal_str", val_null, Source, d, FALSE))
        ELSE /\ FitsFormat(d)
             /\ \E junk \in HeapJunk :
                   formatted_str' = crypto_to_decimal_str(Source.value, d, junk)
             /\ to_denom' = d
             /\ pc' = "formatted"
             /\ UNCHANGED << val, decimal_str, valid, denom, b, b_str, b_denom, result,
                             call, src, back, scale, fault, sql, lookup, agg, fed >>

\* The round trip: the formatted string is parsed, under the denomination
\* it was formatted under, into a value fresh from crypto_init.
Call_crypto_set_from_decimal_back ==
  /\ pc = "formatted"
  /\ call = NoCall
  /\ back' = [back EXCEPT !.value = crypto_set_from_decimal(0, to_denom, formatted_str)]
  /\ pc' = "reparsed"
  /\ UNCHANGED << val, decimal_str, valid, denom, b, b_str, b_denom, result, call, src,
                  to_denom, formatted_str, scale, fault, sql, lookup, agg, fed >>

\* ------------------------------------------------------------------------
\* SQLite calling the scalar functions: one action per registered handler
\* ------------------------------------------------------------------------
Call_crypto_addsub_sqlite ==
  /\ pc = "start"
  /\ \E op \in {"ARITHMETIC_ADD", "ARITHMETIC_SUB"},
        crypto_type_str \in SqlTypeSyms, denom_str \in SqlDenomSyms,
        op_1_str \in Operand1Strings, op_2_str \in Operand2Strings, junk \in HeapJunk :
        /\ SqlFits(op, crypto_type_str, denom_str, op_1_str, op_2_str)
        /\ sql' = [fn |-> "crypto_addsub_sqlite", op |-> op,
                   crypto_type_str |-> crypto_type_str, denom_str |-> denom_str,
                   op_1_str |-> op_1_str, op_2_str |-> op_2_str,
                   ret |-> crypto_addsub_sqlite(op, crypto_type_str, denom_str,
                                                op_1_str, op_2_str, junk)]
  /\ pc' = "returned"
  /\ UNCHANGED << val, decimal_str, valid, denom, b, b_str, b_denom, result, call, src,
                  to_denom, formatted_str, back, scale, fault, lookup, agg, fed >>

Call_crypto_muldiv_sqlite ==
  /\ pc = "start"
  /\ \E op \in {"ARITHMETIC_MUL", "ARITHMETIC_DIV_TRUNC", "ARITHMETIC_DIV_FLOOR",
                "ARITHMETIC_DIV_CEIL"},
        crypto_type_str \in SqlTypeSyms, denom_str \in SqlDenomSyms,
        op_1_str \in Operand1Strings, op_2_str \in Operand2Strings, junk \in HeapJunk :
        /\ SqlFits(op, crypto_type_str, denom_str, op_1_str, op_2_str)
        /\ sql' = [fn |-> "crypto_muldiv_sqlite", op |-> op,
                   crypto_type_str |-> crypto_type_str, denom_str |-> denom_str,
                   op_1_str |-> op_1_str, op_2_str |-> op_2_str,
                   ret |-> crypto_muldiv_sqlite(op, crypto_type_str, denom_str,
                                                op_1_str, op_2_str, junk)]
  /\ IF sql'.ret.status = "trap"
     THEN pc' = "aborted" /\ fault' = "SIGFPE"
     ELSE pc' = "returned" /\ fault' = fault
  /\ UNCHANGED << val, decimal_str, valid, denom, b, b_str, b_denom, result, call, src,
                  to_denom, formatted_str, back, scale, lookup, agg, fed >>

Call_crypto_cmp_sqlite ==
  /\ pc = "start"
  /\ \E crypto_type_str \in SqlTypeSyms, denom_str \in SqlDenomSyms,
        op_1_str \in Operand1Strings, op_2_str \in Operand1Strings, impl \in CmpImpls :
        /\ SqlFits("ARITHMETIC_ADD", crypto_type_str, denom_str, op_1_str, op_2_str)
        /\ sql' = [fn |-> "crypto_cmp_sqlite", op |-> "none",
                   crypto_type_str |-> crypto_type_str, denom_str |-> denom_str,
                   op_1_str |-> op_1_str, op_2_str |-> op_2_str,
                   ret |-> crypto_cmp_sqlite(crypto_type_str, denom_str,
                                             op_1_str, op_2_str, impl)]
  /\ pc' = "returned"
  /\ UNCHANGED << val, decimal_str, valid, denom, b, b_str, b_denom, result, call, src,
                  to_denom, formatted_str, back, scale, fault, lookup, agg, fed >>

\* crypto_scale(crypto, from_denom, to_denom, operand); the record keeps
\* from_denom in denom_str, to_denom in op_1_str and the operand in op_2_str.
Call_crypto_scale_sqlite ==
  /\ pc = "start"
  /\ \E crypto_type_str \in SqlTypeSyms, from_denom_str \in SqlDenomSyms,
        to_denom_str \in SqlDenomSyms,
        operand_str \in Operand1Strings \cup {RejectedOperand, NULL}, junk \in HeapJunk :
        /\ RowFits(crypto_type_str, from_denom_str, to_denom_str, operand_str)
        /\ sql' = [fn |-> "crypto_scale_sqlite", op |-> "none",
                   crypto_type_str |-> crypto_type_str, denom_str |-> from_denom_str,
                   op_1_str |-> to_denom_str, op_2_str |-> operand_str,
                   ret |-> crypto_scale_sqlite(crypto_type_str, from_denom_str,
                                               to_denom_str, operand_str, junk)]
  /\ pc' = "returned"
  /\ UNCHANGED << val, decimal_str, valid, denom, b, b_str, b_denom, result, call, src,
                  to_denom, formatted_str, back, scale, fault, lookup, agg, fed >>

\* The magnitude a row contributes by the reference: its operand, a
\* string of the grammar, read under the denomination of the named family
\* that has the named symbol.
RowMagnitude(crypto_type_str, operand_denom_str, operand_str) ==
  LET t == CHOOSE f \in 0..(CRYPTO_COUNT - 1) : crypto_defs[f] = crypto_type_str
      d == CHOOSE e \in Entries(t, operand_denom_str) : TRUE
  IN RefParse(Trim(operand_str), d)

\* A row contributes an operand: its operand is a string of the grammar.
RowUsable(operand_str) == RefValid(operand_str)

\* The reference fold after one more row of the aggregate fn.
FedRow(fn, f, crypto_type_str, operand_denom_str, final_denom_str, operand_str) ==
  LET m == RowMagnitude(crypto_type_str, operand_denom_str, operand_str)
  IN IF ~RowUsable(operand_str) THEN [f EXCEPT !.rows = f.rows + 1]
     ELSE [rows |-> f.rows + 1, used |-> f.used + 1,
           ref |-> IF fn = "crypto_sum" THEN f.ref + m
                   ELSE IF f.used = 0 THEN m
                   ELSE IF fn = "crypto_max" THEN (IF m > f.ref THEN m ELSE f.ref)
                   ELSE (IF m < f.ref THEN m ELSE f.ref),
           finals |-> f.finals \cup {final_denom_str},
           seed |-> IF f.used = 0 THEN final_denom_str ELSE f.seed]

\* SQLite steps the aggregate fn: for the first row of an aggregation, or
\* for a further row of the one that is running.
AggRunning(fn) ==
  \/ pc = "start"
  \/ pc = "stepped" /\ sql.fn = fn \o "_step" /\ fed.rows < MaxRows

\* SQLite calls the step function fn of an aggregate for a row; the record
\* keeps operand_denom in denom_str, final_denom in op_1_str and the
\* operand in op_2_str.  A step that reports an error ends the query.
AggStep(fn, crypto_type_str, operand_denom_str, final_denom_str, operand_str, impl) ==
  LET step == crypto_agg_step(fn, agg, crypto_type_str, operand_denom_str,
                              final_denom_str, operand_str, impl)
  IN /\ sql' = [fn |-> fn \o "_step", op |-> "none",
                crypto_type_str |-> crypto_type_str,
                denom_str |-> operand_denom_str, op_1_str |-> final_denom_str,
                op_2_str |-> operand_str, ret |-> step.ret]
     /\ agg' = step.p
     /\ fed' = IF step.ret.status = "none"
               THEN FedRow(fn, fed, crypto_type_str, operand_denom_str, final_denom_str,
                           operand_str)
               ELSE [fed EXCEPT !.rows = fed.rows + 1]
     /\ IF step.ret.status = "abort"
        THEN pc' = "aborted" /\ fault' = step.ret.text
        ELSE IF step.ret.status = "error"
        THEN pc' = "returned" /\ fault' = fault
        ELSE pc' = "stepped" /\ fault' = fault

Call_crypto_sum_step ==
  /\ AggRunning("crypto_sum")
  /\ \E row \in AggRows, impl \in CmpImpls :
        /\ RowFits(row[1], row[2], row[3], row[4])
        /\ AggStep("crypto_sum", row[1], row[2], row[3], row[4], impl)
  /\ UNCHANGED << val, decimal_str, valid, denom, b, b_str, b_denom, result, call, src,
                  to_denom, formatted_str, back, scale, lookup >>

Call_crypto_max_step ==
  /\ AggRunning("crypto_max")
  /\ \E row \in AggRows, impl \in CmpImpls :
        /\ RowFits(row[1], row[2], row[3], row[4])
        /\ AggStep("crypto_max", row[1], row[2], row[3], row[4], impl)
  /\ UNCHANGED << val, decimal_str, valid, denom, b, b_str, b_denom, result, call, src,
                  to_denom, formatted_str, back, scale, lookup >>

Call_crypto_min_step ==
  /\ AggRunning("crypto_min")
  /\ \E row \in AggRows, impl \in CmpImpls :
        /\ RowFits(row[1], row[2], row[3], row[4])
        /\ AggStep("crypto_min", row[1], row[2], row[3], row[4], impl)
  /\ UNCHANGED << val, decimal_str, valid, denom, b, b_str, b_denom, result, call, src,
                  to_denom, formatted_str, back, scale, lookup >>

\* SQLite ends the aggregation fn after its last row, or at once when the
\* query had no row.
AggEnding(fn) ==
  \/ pc = "start"
  \/ pc = "stepped" /\ sql.fn = fn \o "_step"

\* SQLite calls the final function of the aggregate fn; the context is
\* cleared.
AggFinal(fn, junk) ==
  /\ sql' = [fn |-> fn \o "_final", op |-> "none", crypto_type_str |-> "",
             denom_str |-> "", op_1_str |-> "", op_2_str |-> << >>,
             ret |-> crypto_agg_final(agg, junk)]
  /\ agg' = IF agg.initialized = 0 THEN agg
            ELSE [agg EXCEPT !.initialized = 0, !.acc.value = 0]
  /\ pc' = "returned"

Call_crypto_sum_final ==
  /\ AggEnding("crypto_sum")
  /\ \E junk \in HeapJunk : AggFinal("crypto_sum", junk)
  /\ UNCHANGED << val, decimal_str, valid, denom, b, b_str, b_denom, result, call, src,
                  to_denom, formatted_str, back, scale, fault, lookup, fed >>

Call_crypto_max_final ==
  /\ AggEnding("crypto_max")
  /\ \E junk \in HeapJunk : AggFinal("crypto_max", junk)
  /\ UNCHANGED << val, decimal_str, valid, denom, b, b_str, b_denom, result, call, src,
                  to_denom, formatted_str, back, scale, fault, lookup, fed >>

Call_crypto_min_final ==
  /\ AggEnding("crypto_min")
  /\ \E junk \in HeapJunk : AggFinal("crypto_min", junk)
  /\ UNCHANGED << val, decimal_str, valid, denom, b, b_str, b_denom, result, call, src,
                  to_denom, formatted_str, back, scale, fault, lookup, fed >>

Call_crypto_get_denom_for_symbol ==
  /\ pc = "start"
  /\ \E type \in 0..CRYPTO_COUNT, symbol \in LookupSymbols :
        lookup' = [type |-> type, symbol |-> symbol,
                   ret |-> crypto_get_denom_for_symbol(type, symbol), done |-> TRUE]
  /\ pc' = "looked_up"
  /\ UNCHANGED << val, decimal_str, valid, denom, b, b_str, b_denom, result, call, src,
                  to_denom, formatted_str, back, scale, fault, sql, agg, fed >>

Next ==
  \/ Call_crypto_is_valid_decimal
  \/ Call_crypto_init
  \/ Call_crypto_set_from_decimal
  \/ Call_crypto_set_from_decimal_again
  \/ Call_crypto_scale_by_precision
  \/ Call_crypto_init_other
  \/ Call_crypto_set_from_decimal_b
  \/ Call_crypto_add
  \/ Call_crypto_sub
  \/ Call_crypto_cmp
  \/ Call_crypto_eq_zero
  \/ Call_crypto_gt_zero
  \/ Call_crypto_lt_zero
  \/ Call_crypto_to_decimal_str
  \/ Call_crypto_set_from_decimal_back
  \/ Call_crypto_addsub_sqlite
  \/ Call_crypto_muldiv_sqlite
  \/ Call_crypto_cmp_sqlite
  \/ Call_crypto_scale_sqlite
  \/ Call_crypto_sum_step
  \/ Call_crypto_max_step
  \/ Call_crypto_min_step
  \/ Call_crypto_sum_final
  \/ Call_crypto_max_final
  \/ Call_crypto_min_final
  \/ Call_crypto_get_denom_for_symbol

Spec == Init /\ [][Next]_vars

\* ------------------------------------------------------------------------
\* power step by step, in the width of a uint64_t: an unsigned integer is
\* a sequence of 16-bit limbs, least significant first
\* ------------------------------------------------------------------------
LimbBase == 65536

\* An unsigned type of half the width: 32 bits in limbs of 16.
UInt32Limbs == 32 \div 16

\* The limbs of a uint64_t
UInt64Limbs == 4

\* Limbs enough to hold base^exp for every exponent stepped
WideLimbs == 6

\* The unsigned integer 1 in n limbs
LimbsOne(n) == [k \in 1..n |-> IF k = 1 THEN 1 ELSE 0]

\* x * m in Len(x) limbs, for a small multiplier m: the carry out of the
\* last limb is dropped, as unsigned multiplication drops it.
RECURSIVE LimbsTimesFrom(_, _, _, _)
LimbsTimesFrom(x, m, i, carry) ==
  IF i > Len(x) THEN << >>
  ELSE << (x[i] * m + carry) % LimbBase >>
         \o LimbsTimesFrom(x, m, i + 1, (x[i] * m + carry) \div LimbBase)

LimbsTimes(x, m) == LimbsTimesFrom(x, m, 1, 0)

\* The value of the narrow x is the value of the wide y.
LimbsEqual(x, y) ==
  /\ \A k \in 1..Len(x) : x[k] = y[k]
  /\ \A k \in (Len(x) + 1)..Len(y) : y[k] = 0

\* power(10, crypto_denoms[d].decimals) is called, as
\* crypto_set_from_decimal and crypto_to_decimal_str call it for the
\* denomination d: result = 1.  `exact` is the same product without a width.
Power_enter ==
  /\ pc = "start"
  /\ \E d \in 0..(DENOM_COUNT - 1) :
        call' = [fn |-> "power", denom |-> d, base |-> 10,
                 exp |-> crypto_denoms[d].decimals,
                 result |-> LimbsOne(UInt64Limbs), exact |-> LimbsOne(WideLimbs)]
  /\ pc' = "powering"
  /\ UNCHANGED << val, decimal_str, valid, denom, b, b_str, b_denom, result, src, to_denom, formatted_str, back, scale, fault, sql, lookup, agg, fed >>

\* One round of the loop: result = result * base; exp--.
Power_step ==
  /\ pc = "powering"
  /\ call.exp # 0
  /\ call' = [call EXCEPT !.exp = call.exp - 1,
                          !.result = LimbsTimes(call.result, call.base),
                          !.exact = LimbsTimes(call.exact, call.base)]
  /\ UNCHANGED << pc, val, decimal_str, valid, denom, b, b_str, b_denom, result, src, to_denom, formatted_str, back, scale, fault, sql, lookup, agg, fed >>

\* exp is zero: power returns result.
Power_return ==
  /\ pc = "powering"
  /\ call.exp = 0
  /\ pc' = "powered"
  /\ UNCHANGED << call, val, decimal_str, valid, denom, b, b_str, b_denom, result, src, to_denom, formatted_str, back, scale, fault, sql, lookup, agg, fed >>

NextPower ==
  \/ Power_enter
  \/ Power_step
  \/ Power_return

SpecPower == Init /\ [][NextPower]_vars

\* ------------------------------------------------------------------------
\* crypto_is_valid_decimal and crypto_scale_by_precision step by step: one
\* action per round of each loop
\* ------------------------------------------------------------------------
\* "0." followed by n zeros
ZeroFraction(n) == << "0", "." >> \o Zeros(n)

\* The strings the stepwise functions are called with: short ones, accepted
\* and rejected, and zero written with 255 and with 256 fraction digits.
LoopStrings ==
  { << "1" >>, << "0", ".", "5" >>, << "5", ".", "5", "5" >>, << "-", "5" >>,
    << "1", ".", "0" >>, << "2", ".", " " >>, << "7", " " >>, << "1", " ", "2" >>,
    << "1", ".", "2", ".", "3" >>, << "1", "x" >>, << "a" >>, << >>,
    ZeroFraction(UInt8Max), ZeroFraction(UInt8Max + 1) }

\* *str where a loop stands
LoopChar == At(decimal_str, call.i)

\* crypto_is_valid_decimal is entered: leading white space, the empty
\* string, the sign and the first character.
Valid_enter ==
  /\ pc = "start"
  /\ \E str \in LoopStrings :
        LET i0 == SkipWs(str, 1)
            i1 == IF At(str, i0) = "+" \/ At(str, i0) = "-" THEN i0 + 1 ELSE i0
            c == At(str, i1)
        IN /\ decimal_str' = str
           /\ IF At(str, i0) = NUL \/ (~isdigit(c) /\ c # ".")
              THEN pc' = "rejected" /\ call' = [fn |-> "crypto_is_valid_decimal"]
              ELSE /\ pc' = "validating"
                   /\ call' = [fn |-> "crypto_is_valid_decimal", i |-> i1 + 1,
                               has_decimal |-> c = ".", has_digit |-> isdigit(c)]
  /\ UNCHANGED << valid, scale, val, denom, b, b_str, b_denom, result, src, to_denom, formatted_str, back, fault, sql, lookup, agg, fed >>

\* One round of the validator's while loop that ends with str++.
Valid_char ==
  /\ pc = "validating"
  /\ (LoopChar = "." /\ ~call.has_decimal) \/ isdigit(LoopChar)
  /\ call' = [call EXCEPT !.i = call.i + 1,
                          !.has_decimal = call.has_decimal \/ LoopChar = ".",
                          !.has_digit = call.has_digit \/ isdigit(LoopChar)]
  /\ UNCHANGED << pc, decimal_str, valid, scale, val, denom, b, b_str, b_denom, result, src, to_denom, formatted_str, back, fault, sql, lookup, agg, fed >>

\* The validator returns: at the terminating NUL, at a second decimal
\* point, at trailing white space, or at any other character.
Valid_return ==
  /\ pc = "validating"
  /\ ~((LoopChar = "." /\ ~call.has_decimal) \/ isdigit(LoopChar))
  /\ valid' = IF LoopChar = NUL THEN call.has_digit
              ELSE IF IsWs(LoopChar)
                   THEN At(decimal_str, SkipWs(decimal_str, call.i + 1)) = NUL /\ call.has_digit
                   ELSE FALSE
  /\ pc' = IF valid' THEN "validated" ELSE "rejected"
  /\ UNCHANGED << decimal_str, call, scale, val, denom, b, b_str, b_denom, result, src, to_denom, formatted_str, back, fault, sql, lookup, agg, fed >>

\* crypto_scale_by_precision is entered with a validated string:
\* mpz_set_str on the whole string, strchr, and the early return when there
\* is no decimal point.
Scale_enter ==
  /\ pc = "validated"
  /\ scale' = [result |-> mpz_set_str(0, decimal_str).value, precision |-> 0,
               done |-> strchr(decimal_str, ".") = 0]
  /\ call' = [fn |-> "crypto_scale_by_precision", i |-> strchr(decimal_str, ".") + 1]
  /\ pc' = IF strchr(decimal_str, ".") = 0 THEN "scaled" ELSE "counting"
  /\ UNCHANGED << decimal_str, valid, val, denom, b, b_str, b_denom, result, src, to_denom, formatted_str, back, fault, sql, lookup, agg, fed >>

\* One round of the loop that counts the characters after the decimal
\* point: precision++ in a uint8_t.
Scale_count ==
  /\ pc = "counting"
  /\ At(decimal_str, strchr(decimal_str, ".") + scale.precision + 1) # NUL
  /\ scale' = [scale EXCEPT !.precision = (scale.precision + 1) % (UInt8Max + 1)]
  /\ UNCHANGED << pc, decimal_str, valid, call, val, denom, b, b_str, b_denom, result, src, to_denom, formatted_str, back, fault, sql, lookup, agg, fed >>

\* The counting loop has found the terminating NUL: mpz_set_str on the
\* characters after the decimal point begins. It fails, leaving zero, when
\* the first character after the white space is not a digit.
Scale_counted ==
  /\ pc = "counting"
  /\ At(decimal_str, strchr(decimal_str, ".") + scale.precision + 1) = NUL
  /\ call' = [fn |-> "mpz_set_str", i |-> SkipSpace(decimal_str, call.i),
              started |-> FALSE, fraction |-> 0]
  /\ pc' = "converting"
  /\ UNCHANGED << decimal_str, valid, scale, val, denom, b, b_str, b_denom, result, src, to_denom, formatted_str, back, fault, sql, lookup, agg, fed >>

\* mpz_set_str reads one character of the fraction: a digit, or white
\* space after the first digit.
Scale_digit ==
  /\ pc = "converting"
  /\ isdigit(LoopChar) \/ (isspace(LoopChar) /\ call.started)
  /\ call' = [call EXCEPT !.i = call.i + 1, !.started = TRUE,
                          !.fraction = IF isdigit(LoopChar)
                                       THEN call.fraction * 10 + DigitVal(LoopChar)
                                       ELSE call.fraction]
  /\ UNCHANGED << pc, decimal_str, valid, scale, val, denom, b, b_str, b_denom, result, src, to_denom, formatted_str, back, fault, sql, lookup, agg, fed >>

\* The fraction is converted: the whole string's magnitude is scaled and
\* the fraction added when the fraction is not zero, and the function
\* returns.
Scale_return ==
  /\ pc = "converting"
  /\ ~isdigit(LoopChar)
  /\ ~(isspace(LoopChar) /\ call.started)
  /\ scale' = IF call.fraction # 0
              THEN [result |-> scale.result * power(10, scale.precision) + call.fraction,
                    precision |-> scale.precision, done |-> TRUE]
              ELSE [result |-> scale.result, precision |-> 0, done |-> TRUE]
  /\ pc' = "scaled"
  /\ UNCHANGED << decimal_str, valid, call, val, denom, b, b_str, b_denom, result, src, to_denom, formatted_str, back, fault, sql, lookup, agg, fed >>

NextScale ==
  \/ Valid_enter
  \/ Valid_char
  \/ Valid_return
  \/ Scale_enter
  \/ Scale_count
  \/ Scale_counted
  \/ Scale_digit
  \/ Scale_return

\* A function that was entered keeps running: each of its steps is taken
\* when it stays possible.
ScaleFairness ==
  /\ WF_vars(Valid_char) /\ WF_vars(Valid_return) /\ WF_vars(Scale_enter)
  /\ WF_vars(Scale_count) /\ WF_vars(Scale_counted)
  /\ WF_vars(Scale_digit) /\ WF_vars(Scale_return)

SpecScale == Init /\ [][NextScale]_vars /\ ScaleFairness

\* ------------------------------------------------------------------------
\* Properties
\* ------------------------------------------------------------------------

\* C1: round trip -- parsing the string crypto_to_decimal_str produced for a
\* value, under the denomination it was formatted under, yields the value's
\* magnitude again.
C1_RoundTrip ==
  pc = "reparsed" => back.value = val.value

\* C2: parse reference result -- for a string [sign] digits ['.' digits]
\* without white space, crypto_set_from_decimal stores sign * (W * 10^e + F),
\* F being the fraction digits right-padded with '0' or cut to e digits;
\* the 38-digit fraction parses under BTC as "1.23456789" does.
C2_ParseReference ==
  (pc = "parsed" /\ PlainDecimal(decimal_str)) =>
     /\ val.value = RefParse(decimal_str, denom)
     /\ (decimal_str = LongFraction /\ denom = BTC_DENOM_BITCOIN) => val.value = 123456789

\* C2 witness: a signless or signed plain decimal whose fraction is longer
\* than the denomination's decimals has been parsed.
C2_Witness ==
  /\ pc = "parsed"
  /\ PlainDecimal(decimal_str)
  /\ crypto_denoms[denom].decimals > 0
  /\ Len(RefFracDigits(decimal_str)) > crypto_denoms[denom].decimals
  /\ val.value # 0

\* C3: white space is irrelevant to parsing -- a validated string stores the
\* magnitude that the string without its leading and trailing white space
\* stores.
C3_WhitespaceIrrelevant ==
  pc = "parsed" => val.value = crypto_set_from_decimal(0, denom, Trim(decimal_str))

\* C5: format reference result -- crypto_to_decimal_str returns the digits
\* of the quotient alone when the remainder is zero, otherwise quotient,
\* '.', and the remainder left-padded with zeros to e digits, with '-' in
\* front exactly when the value is negative.
C5_FormatReference ==
  pc = "formatted" => formatted_str = RefFormat(Source.value, to_denom)

IntegerString(str) == PlainDecimal(str) /\ strchr(str, ".") = 0

SignedDigits(n) == IF n < 0 THEN << "-" >> \o RefDigits(-n) ELSE RefDigits(n)

SameFamily(d) ==
  {d2 \in 0..(DENOM_COUNT - 1) : crypto_denoms[d2].crypto_type = crypto_denoms[d].crypto_type}

HalfBitcoin ==
  { << << "5", "0", "0", "0", "0", "0", "0", "0" >>, BTC_DENOM_SATOSHI >>,
    << << "0", ".", "5" >>, BTC_DENOM_BITCOIN >>,
    << << "5", "0", "0", "0", "0", "0" >>, BTC_DENOM_MICROBIT >> }

\* C4: cross-denomination equivalence -- an integer n parsed under D1
\* stores what n * 10^(e1 - e2) parsed under a denomination D2 of the same
\* family with e2 <= e1 stores; "50000000" SAT, "0.5" BTC and "500000" μBTC
\* store the same magnitude and crypto_cmp of any two returns 0.
C4_CrossDenomination ==
  /\ (pc = "parsed" /\ IntegerString(decimal_str)) =>
        \A d2 \in SameFamily(denom) :
           crypto_denoms[d2].decimals <= crypto_denoms[denom].decimals =>
              LET n == RefSign(decimal_str) * RefNat(RefWholeDigits(decimal_str))
                  shift == crypto_denoms[denom].decimals - crypto_denoms[d2].decimals
              IN crypto_set_from_decimal(0, d2, SignedDigits(n * Pow10(shift))) = val.value
  /\ (/\ pc = "compared"
      /\ << decimal_str, denom >> \in HalfBitcoin
      /\ << b_str, b_denom >> \in HalfBitcoin) =>
        (val.value = b.value /\ call.ret = 0 /\ val.value = 50000000)

\* C4 witness: "50000000" under SAT and "0.5" under BTC have been parsed
\* and compared.
C4_Witness ==
  /\ pc = "compared"
  /\ decimal_str = << "5", "0", "0", "0", "0", "0", "0", "0" >>
  /\ denom = BTC_DENOM_SATOSHI
  /\ b_str = << "0", ".", "5" >>
  /\ b_denom = BTC_DENOM_BITCOIN
  /\ call.ret = 0

RECURSIVE StripZeros(_)
StripZeros(s) ==
  IF s # << >> /\ s[Len(s)] = "0" THEN StripZeros(SubSeq(s, 1, Len(s) - 1)) ELSE s

\* The shortest plain decimal string with an integer part that denotes
\* v / 10^e.
RefShortest(v, d) ==
  LET e == crypto_denoms[d].decimals
      q == Abs(v) \div Pow10(e)
      r == Abs(v) % Pow10(e)
      rs == RefDigits(r)
      body == IF r = 0 THEN RefDigits(q)
              ELSE RefDigits(q) \o << "." >> \o StripZeros(Zeros(e - Len(rs)) \o rs)
  IN IF v < 0 THEN << "-" >> \o body ELSE body

Remainder(v, d) == Abs(v) % Pow10(crypto_denoms[d].decimals)

Quotient(v, d) == Abs(v) \div Pow10(crypto_denoms[d].decimals)

BitcoinDifference ==
  /\ pc = "formatted"
  /\ call # NoCall
  /\ call.fn = "crypto_sub"
  /\ decimal_str = << "1" >>
  /\ denom = BTC_DENOM_BITCOIN
  /\ b_str = << "0", ".", "5" >>
  /\ b_denom = BTC_DENOM_BITCOIN
  /\ to_denom = BTC_DENOM_MILLIBIT

\* crypto_sub('BTC', 'mBTC', '1', '0.5') has returned.
MillibitDifference ==
  /\ sql # NoSql
  /\ sql.fn = "crypto_addsub_sqlite"
  /\ sql.op = "ARITHMETIC_SUB"
  /\ sql.crypto_type_str = "BTC"
  /\ sql.denom_str = "mBTC"
  /\ sql.op_1_str = << "1" >>
  /\ sql.op_2_str = << "0", ".", "5" >>

\* C7 as the specification states it: the difference of "1" and "0.5"
\* parsed under BTC, formatted under mBTC, is "0.50000".
C7_Original ==
  BitcoinDifference => formatted_str = << "0", ".", "5", "0", "0", "0", "0" >>

\* C7: the difference of "1" and "0.5" parsed under BTC, formatted under
\* mBTC, is "500"; "0.50000" is what crypto_sub('BTC', 'mBTC', '1', '0.5')
\* returns, whose operands are parsed under mBTC.
C7_DifferenceInMillibit ==
  /\ BitcoinDifference => formatted_str = << "5", "0", "0" >>
  /\ MillibitDifference =>
        (sql.ret.status = "text" /\ sql.ret.text = << "0", ".", "5", "0", "0", "0", "0" >>)

\* C7 witness: the difference has been formatted under mBTC.
C7_Witness ==
  BitcoinDifference /\ Source.value = 50000000

\* C8: after crypto_add / crypto_sub the destination holds exactly a + b /
\* a - b of the magnitudes the operands held at the call, whatever the
\* denominations they were parsed under, also when the destination is the
\* first operand, as in the SQL functions.
C8_AdditiveExactness ==
  /\ (pc = "computed" /\ call.fn = "crypto_add") =>
        /\ Source.value = call.a + call.b
        /\ b.value = call.b
        /\ call.dest = "result" => val.value = call.a
  /\ (pc = "computed" /\ call.fn = "crypto_sub") =>
        /\ Source.value = call.a - call.b
        /\ b.value = call.b
        /\ call.dest = "result" => val.value = call.a
  /\ (sql # NoSql /\ sql.fn = "crypto_addsub_sqlite" /\ sql.ret.status = "text") =>
        sql.ret.value = IF sql.op = "ARITHMETIC_ADD" THEN sql.ret.op_1 + sql.ret.op_2
                        ELSE sql.ret.op_1 - sql.ret.op_2

\* C8 witness: an addition of two non-zero operands parsed under different
\* denominations has written its result over its first operand.
C8_Witness ==
  /\ pc = "computed"
  /\ call.fn = "crypto_add"
  /\ call.dest = "val"
  /\ denom # b_denom
  /\ call.a # 0
  /\ call.b # 0
  /\ call.a # call.b

\* C9: crypto_scale_by_precision returns (m, k) with m / 10^k equal to the
\* number the validated string denotes.
C9_ScaleDenotes ==
  pc = "scaled" =>
    LET t == Trim(decimal_str)
        p == Len(RefFracDigits(t))
        num == RefSign(t) * (RefNat(RefWholeDigits(t)) * Pow10(p) + RefNat(RefFracDigits(t)))
        k == scale.precision
        hi == IF p > k THEN p ELSE k
    IN scale.result * Pow10(hi - k) = num * Pow10(hi - p)

\* C10: the multiplication path stores trunc(a * m / 10^p), the quotient
\* rounded toward zero, for the (m, p) crypto_scale_by_precision returned;
\* crypto_mul('BTC', 'BTC', '0.5', '0.5') returns "0.25000000".
C10_MulTruncates ==
  (/\ sql # NoSql
   /\ sql.fn = "crypto_muldiv_sqlite"
   /\ sql.op = "ARITHMETIC_MUL"
   /\ sql.ret.status = "text") =>
    LET prod == sql.ret.op_1 * sql.ret.scalar
        d == Pow10(sql.ret.precision)
        r == sql.ret.value
    IN /\ Abs(r) * d <= Abs(prod)
       /\ Abs(prod) - Abs(r) * d < d
       /\ r # 0 => Sgn(r) = Sgn(prod)
       /\ (/\ sql.crypto_type_str = "BTC" /\ sql.denom_str = "BTC"
           /\ sql.op_1_str = << "0", ".", "5" >> /\ sql.op_2_str = << "0", ".", "5" >>)
          => (/\ sql.ret.scalar = 5 /\ sql.ret.precision = 1
              /\ sql.ret.text = << "0", ".", "2", "5", "0", "0", "0", "0", "0", "0" >>)

\* C10 witness: a multiplication with a negative product that the rescale
\* does not divide has returned.
C10_Witness ==
  /\ sql # NoSql
  /\ sql.fn = "crypto_muldiv_sqlite"
  /\ sql.op = "ARITHMETIC_MUL"
  /\ sql.ret.status = "text"
  /\ sql.ret.op_1 * sql.ret.scalar < 0
  /\ (sql.ret.op_1 * sql.ret.scalar) % Pow10(sql.ret.precision) # 0

DivisionOps == {"ARITHMETIC_DIV_TRUNC", "ARITHMETIC_DIV_FLOOR", "ARITHMETIC_DIV_CEIL"}

\* A division of the SQL layer has returned a quotient.
DivisionReturned ==
  /\ sql # NoSql
  /\ sql.fn = "crypto_muldiv_sqlite"
  /\ sql.op \in DivisionOps
  /\ sql.ret.status = "text"

\* q is x / m rounded toward zero, minus infinity, plus infinity (m # 0).
RefTruncated(q, x, m) ==
  /\ Abs(q) * Abs(m) <= Abs(x)
  /\ Abs(x) - Abs(q) * Abs(m) < Abs(m)
  /\ q # 0 => Sgn(q) = Sgn(x) * Sgn(m)

RefFloored(q, x, m) ==
  IF m > 0 THEN q * m <= x /\ x - q * m < m
  ELSE q * m >= x /\ q * m - x < -m

RefCeiled(q, x, m) ==
  IF m > 0 THEN q * m >= x /\ q * m - x < m
  ELSE q * m <= x /\ x - q * m < -m

\* C11: rounding policies of the division -- with x = a * 10^p and the
\* nonzero scalar m of either sign, crypto_div_trunc stores x / m rounded
\* toward zero, crypto_div_floor rounded toward minus infinity and
\* crypto_div_ceil rounded toward plus infinity; crypto_div_trunc('BTC',
\* 'BTC', '1', '3') returns "0.33333333".
C11_DivisionPolicies ==
  DivisionReturned =>
    LET x == sql.ret.op_1 * Pow10(sql.ret.precision)
        m == sql.ret.scalar
        q == sql.ret.value
    IN /\ m # 0
       /\ sql.op = "ARITHMETIC_DIV_TRUNC" => RefTruncated(q, x, m)
       /\ sql.op = "ARITHMETIC_DIV_FLOOR" => RefFloored(q, x, m)
       /\ sql.op = "ARITHMETIC_DIV_CEIL" => RefCeiled(q, x, m)
       /\ (/\ sql.op = "ARITHMETIC_DIV_TRUNC"
           /\ sql.crypto_type_str = "BTC" /\ sql.denom_str = "BTC"
           /\ sql.op_1_str = << "1" >> /\ sql.op_2_str = << "3" >>)
          => sql.ret.text = << "0", ".", "3", "3", "3", "3", "3", "3", "3", "3" >>

\* C11 witness: a ceiling division of a positive dividend by a positive
\* scalar that does not divide it, with a precision above zero, has
\* returned.
C11_Witness ==
  /\ DivisionReturned
  /\ sql.op = "ARITHMETIC_DIV_CEIL"
  /\ sql.ret.precision > 0
  /\ sql.ret.op_1 > 0
  /\ sql.ret.scalar > 0
  /\ (sql.ret.op_1 * Pow10(sql.ret.precision)) % sql.ret.scalar # 0

\* The magnitude the SQL division returns for the call's arguments under
\* a rounding policy.
QuotientUnder(op) ==
  crypto_muldiv_sqlite(op, sql.crypto_type_str, sql.denom_str, sql.op_1_str,
                       sql.op_2_str, << >>).value

\* C12: the rounding modes differ only when the division is inexact -- for
\* an exact division truncate, floor and ceiling agree; otherwise ceiling
\* is floor plus one and truncate is one of the two.
C12_RoundingModesAgree ==
  DivisionReturned =>
    LET x == sql.ret.op_1 * Pow10(sql.ret.precision)
        t == QuotientUnder("ARITHMETIC_DIV_TRUNC")
        f == QuotientUnder("ARITHMETIC_DIV_FLOOR")
        c == QuotientUnder("ARITHMETIC_DIV_CEIL")
    IN /\ sql.ret.value = QuotientUnder(sql.op)
       /\ IF x % Abs(sql.ret.scalar) = 0
          THEN t = f /\ f = c /\ t * sql.ret.scalar = x
          ELSE c - f = 1 /\ t \in {f, c}

\* C12 witness: an inexact division with a negative quotient, where
\* truncation agrees with the ceiling, has returned.
C12_Witness ==
  /\ DivisionReturned
  /\ (sql.ret.op_1 * Pow10(sql.ret.precision)) % Abs(sql.ret.scalar) # 0
  /\ sql.ret.op_1 * sql.ret.scalar < 0
  /\ sql.op = "ARITHMETIC_DIV_FLOOR"
  /\ sql.ret.value < QuotientUnder("ARITHMETIC_DIV_TRUNC")

\* The validated string denotes zero: every digit of it is '0'.
DenotesZero(str) == \A k \in 1..Len(str) : isdigit(str[k]) => str[k] = "0"

\* The SQL call named a family and one of its denominations and passed two
\* operands the validator accepts.
SqlArgumentsAccepted ==
  /\ crypto_get_type_for_symbol(sql.crypto_type_str) # CRYPTO_COUNT
  /\ crypto_get_denom_for_symbol(crypto_get_type_for_symbol(sql.crypto_type_str),
                                 sql.denom_str) # DENOM_COUNT
  /\ crypto_is_valid_decimal(sql.op_1_str)
  /\ crypto_is_valid_decimal(sql.op_2_str)

\* C13: division by zero is reported -- a division whose scalar denotes
\* zero returns the error "<function>: Division by zero" under each
\* rounding policy, computes no quotient and the process goes on.
C13_DivisionByZeroReported ==
  (/\ sql # NoSql
   /\ sql.fn = "crypto_muldiv_sqlite"
   /\ sql.op \in DivisionOps
   /\ SqlArgumentsAccepted
   /\ DenotesZero(sql.op_2_str)) =>
     /\ pc = "returned"
     /\ fault = "none"
     /\ sql.ret.status = "error"
     /\ sql.ret.text = crypto_arithmetic_op_str[sql.op] \o ": Division by zero"
     /\ sql.ret.value = 0

\* C13 witness: a floor division of a nonzero dividend by "0" has returned.
C13_Witness ==
  /\ sql # NoSql
  /\ sql.fn = "crypto_muldiv_sqlite"
  /\ sql.op = "ARITHMETIC_DIV_FLOOR"
  /\ SqlArgumentsAccepted
  /\ sql.op_2_str = << "0" >>
  /\ crypto_set_from_decimal(0, crypto_get_denom_for_symbol(
        crypto_get_type_for_symbol(sql.crypto_type_str), sql.denom_str), sql.op_1_str) # 0
  /\ sql.ret.status = "error"

\* The grammar of a decimal string: after its leading and trailing space,
\* tab, CR and LF are removed, an optional '+' or '-' and then a run of
\* digits and '.' with at least one digit and at most one '.'.
\* C14: validator grammar -- crypto_is_valid_decimal is true exactly for
\* the strings of the grammar; NULL, empty and all-blank strings, a bare
\* sign, a bare '.', white space between characters and any other
\* character are rejected ("123.45.67", "123 456", "123abc" are invalid;
\* "-.01", "+123", "  -123.45  " are valid).
C14_ValidatorGrammar ==
  pc = "validated" =>
    /\ valid = RefValid(decimal_str)
    /\ decimal_str \in { << "1", "2", "3", ".", "4", "5", ".", "6", "7" >>,
                         << "1", "2", "3", " ", "4", "5", "6" >>,
                         << "1", "2", "3", "a", "b", "c" >>, NULL, << >>,
                         << "-" >>, << "." >>, << " ", "\t" >> } => ~valid
    /\ decimal_str \in { << "-", ".", "0", "1" >>, << "+", "1", "2", "3" >>,
                         << " ", " ", "-", "1", "2", "3", ".", "4", "5", " ", " " >> } => valid

\* C14 witness: "  -123.45  " has been validated and accepted.
C14_Witness ==
  /\ pc = "validated"
  /\ decimal_str = << " ", " ", "-", "1", "2", "3", ".", "4", "5", " ", " " >>
  /\ valid

DenomsOf(f) == {d \in 0..(DENOM_COUNT - 1) : crypto_denoms[d].crypto_type = f}

FamiliesValid ==
  \A d \in 0..(DENOM_COUNT - 1) :
     crypto_denoms[d].crypto_type >= 0 /\ crypto_denoms[d].crypto_type < CRYPTO_COUNT

OneAtomicUnit ==
  \A f \in 0..(CRYPTO_COUNT - 1) :
     /\ DenomsOf(f) # {}
     /\ Cardinality({d \in DenomsOf(f) : crypto_denoms[d].decimals = 0}) = 1

\* C15: registry invariant -- every denomination belongs to a valid
\* family, every family has at least one denomination and exactly one
\* denomination of each family has decimals = 0, the atomic unit; so has
\* the family of every value the client initialises.
C15_RegistryInvariant ==
  /\ FamiliesValid
  /\ OneAtomicUnit
  /\ crypto_is_valid_type(val.crypto_type) =>
        \E d \in DenomsOf(val.crypto_type) : crypto_denoms[d].decimals = 0

\* C15 witness: a non-zero amount has been parsed under the atomic unit of
\* its family.
C15_Witness ==
  /\ pc = "parsed"
  /\ crypto_denoms[denom].decimals = 0
  /\ Cardinality({d \in DenomsOf(val.crypto_type) : crypto_denoms[d].decimals = 0}) = 1
  /\ val.value # 0

\* No two registry entries have the same family and symbol.
KeysUnique ==
  \A f \in 0..(CRYPTO_COUNT - 1), d \in 0..(DENOM_COUNT - 1) :
     Cardinality(Entries(f, crypto_denoms[d].symbol)) <= 1

\* C16: denomination lookup is keyed by (family, symbol) -- at most one
\* entry has a given family and symbol; crypto_get_denom_for_symbol
\* returns that entry when it exists and DENOM_COUNT otherwise, never an
\* entry of another family even when the symbol repeats across families,
\* and a symbol in another case does not match.
C16_LookupByFamilyAndSymbol ==
  /\ KeysUnique
  /\ lookup.done =>
        /\ IF Entries(lookup.type, lookup.symbol) = {}
           THEN lookup.ret = DENOM_COUNT
           ELSE Entries(lookup.type, lookup.symbol) = {lookup.ret}
        /\ lookup.symbol \in {"sat", "Sat", "gwei", "btc", "BTC "} => lookup.ret = DENOM_COUNT
  /\ (/\ sql # NoSql
      /\ sql.fn \in {"crypto_addsub_sqlite", "crypto_muldiv_sqlite", "crypto_cmp_sqlite"}
      /\ sql.ret.status \in {"text", "int"}) =>
        sql.ret.denom \in Entries(crypto_get_type_for_symbol(sql.crypto_type_str),
                                  sql.denom_str)

\* C16 witness: "SAT" has been looked up in the DOGE family and the DOGE
\* entry, not the BTC entry of the same symbol, came back.
C16_Witness ==
  /\ lookup.done
  /\ lookup.symbol = "SAT"
  /\ crypto_defs[lookup.type] = "DOGE"
  /\ lookup.ret # BTC_DENOM_SATOSHI
  /\ lookup.ret # DENOM_COUNT
  /\ crypto_denoms[lookup.ret].symbol = "SAT"

\* The denomination symbols the last SQL call was given: one for the
\* arithmetic functions and the comparison, two for crypto_scale and for
\* an aggregate row.
SqlDenomArgs ==
  IF sql.fn \in {"crypto_addsub_sqlite", "crypto_muldiv_sqlite", "crypto_cmp_sqlite"}
  THEN {sql.denom_str}
  ELSE {sql.denom_str, sql.op_1_str}

\* The last SQL call named a family no registry entry has, or a
\* denomination that is not in the family it named.
LookupFails ==
  /\ sql # NoSql
  /\ sql.fn \notin {"crypto_sum_final", "crypto_max_final", "crypto_min_final"}
  /\ IF \A t \in 0..(CRYPTO_COUNT - 1) : crypto_defs[t] # sql.crypto_type_str
     THEN TRUE
     ELSE \E t \in 0..(CRYPTO_COUNT - 1), s \in SqlDenomArgs :
             crypto_defs[t] = sql.crypto_type_str /\ Entries(t, s) = {}

\* C17: lookup failure is reported -- an SQL function (crypto_add,
\* crypto_sub, crypto_mul, crypto_div_*, crypto_cmp, crypto_scale, a step
\* of crypto_sum, crypto_max or crypto_min) called with a family symbol
\* no family has, or a denomination symbol not in that family, reports an
\* error, and nothing was parsed or computed.
C17_LookupFailureReported ==
  LookupFails =>
     /\ sql.ret.status = "error"
     /\ sql.ret.op_1 = 0 /\ sql.ret.op_2 = 0 /\ sql.ret.value = 0
     /\ pc # "aborted"

\* The mathematical order of two magnitudes as -1, 0 or 1.
RefOrder(x, y) == IF x = y THEN 0 ELSE IF x < y THEN -1 ELSE 1

\* C18: the crypto_cmp SQL function returns exactly 0 when its two
\* validated operands of one family and denomination are equal, exactly
\* -1 when the first is less and exactly 1 when the first is greater,
\* operands of opposite sign included.
C18_CmpMinusOneZeroOne ==
  (sql # NoSql /\ sql.fn = "crypto_cmp_sqlite" /\ sql.ret.status = "int") =>
     /\ sql.ret.op_1 = RefParse(sql.op_1_str, sql.ret.denom)
     /\ sql.ret.op_2 = RefParse(sql.op_2_str, sql.ret.denom)
     /\ sql.ret.value = RefOrder(sql.ret.op_1, sql.ret.op_2)

\* C19: sign predicates -- for every value exactly one of crypto_eq_zero,
\* crypto_gt_zero and crypto_lt_zero is true, each says what its name
\* says of the magnitude, so zero is neither positive nor negative; and
\* a value parsed from "0", "-0" or "0.00000000" under any denomination
\* is zero for crypto_eq_zero.
C19_SignPredicates ==
  /\ pc \in {"eq_tested", "gt_tested", "sign_tested"} =>
        /\ call.a = val.value
        /\ call.eq # 0 <=> val.value = 0
        /\ decimal_str \in ZeroStrings => call.eq # 0
  /\ pc \in {"gt_tested", "sign_tested"} =>
        /\ call.gt # 0 <=> val.value > 0
        /\ ~(call.eq # 0 /\ call.gt # 0)
  /\ pc = "sign_tested" =>
        /\ call.lt # 0 <=> val.value < 0
        /\ Cardinality({k \in {"eq", "gt", "lt"} : call[k] # 0}) = 1

\* C19 witness: "0.00000000" was parsed as millibits and the three
\* predicates were asked; only crypto_eq_zero said yes.
C19_Witness ==
  /\ pc = "sign_tested"
  /\ decimal_str = << "0", ".", "0", "0", "0", "0", "0", "0", "0", "0" >>
  /\ denom = BTC_DENOM_MILLIBIT
  /\ call.eq = 1 /\ call.gt = 0 /\ call.lt = 0

\* A negative value has passed the three predicates.
C19_NegativeWitness ==
  /\ pc = "sign_tested"
  /\ val.value < 0
  /\ call.lt = 1

\* The denomination d exists and is one of family f.
InFamily(d, f) ==
  IF d >= 0 /\ d < DENOM_COUNT THEN crypto_denoms[d].crypto_type = f ELSE FALSE

\* The arguments recorded in call break a precondition of its function.
PreconditionBroken ==
  IF call.fn \in {"crypto_set_from_decimal", "crypto_to_decimal_str"}
  THEN \/ call.val_null
       \/ call.str_null
       \/ call.denom >= DENOM_COUNT
       \/ ~InFamily(call.denom, call.crypto_type)
  ELSE IF call.fn = "crypto_cmp"
  THEN call.a_type # call.b_type
  ELSE call.a_type # call.b_type \/ call.r_type # call.a_type

\* C20: family preconditions are enforced by assertion --
\* crypto_set_from_decimal and crypto_to_decimal_str called with a
\* denomination of another family than the value's, with a denomination
\* index >= DENOM_COUNT, or with a NULL value or string fail an assertion
\* and produce no result, and so do crypto_add, crypto_sub and crypto_cmp
\* when the families of their arguments differ: a parsed value, a
\* formatted string, a sum, a difference or a comparison result exists
\* only where the preconditions held, and an aborted call leaves nothing.
C20_PreconditionsAsserted ==
  /\ pc \in {"parsed", "mixed", "parsed2"} =>
        decimal_str # NULL /\ InFamily(denom, val.crypto_type)
  /\ pc = "parsed2" => b_str # NULL /\ InFamily(b_denom, b.crypto_type)
  /\ pc = "formatted" => formatted_str # NULL /\ InFamily(to_denom, Source.crypto_type)
  /\ pc = "computed" =>
        /\ call.fn \in {"crypto_add", "crypto_sub"}
        /\ val.crypto_type = b.crypto_type
        /\ call.dest = "result" => result.crypto_type = val.crypto_type
  /\ pc = "compared" => call.fn = "crypto_cmp" /\ val.crypto_type = b.crypto_type
  /\ (pc = "aborted" /\ call # NoCall) =>
        /\ fault = call.fn
        /\ PreconditionBroken
        /\ val = NoVal /\ b = NoVal /\ result = NoVal /\ formatted_str = NULL

\* C20 witness: crypto_set_from_decimal was called on a bitcoin value with
\* an ether denomination, the assertion failed and no value remains.
C20_Witness ==
  /\ pc = "aborted"
  /\ fault = "crypto_set_from_decimal"
  /\ call # NoCall
  /\ ~call.val_null /\ ~call.str_null
  /\ crypto_defs[call.crypto_type] = "BTC"
  /\ call.denom < DENOM_COUNT
  /\ crypto_defs[crypto_denoms[call.denom].crypto_type] = "ETH"
  /\ val = NoVal

\* Every other way the claim names has aborted a call: a NULL value, a
\* NULL string, the index DENOM_COUNT, and mixed families in crypto_add,
\* crypto_sub, crypto_cmp and crypto_to_decimal_str.
AbortedWith(fn) == pc = "aborted" /\ call # NoCall /\ call.fn = fn
C20_NullValueAborts == AbortedWith("crypto_set_from_decimal") /\ call.val_null
C20_NullStringAborts == AbortedWith("crypto_set_from_decimal") /\ call.str_null
C20_BadIndexAborts ==
  AbortedWith("crypto_to_decimal_str") /\ ~call.val_null /\ call.denom = DENOM_COUNT
C20_FormatAborts ==
  AbortedWith("crypto_to_decimal_str") /\ ~call.val_null /\ call.denom < DENOM_COUNT
C20_AddAborts == AbortedWith("crypto_add") /\ call.a_type # call.b_type
C20_SubAborts == AbortedWith("crypto_sub") /\ call.r_type # call.a_type
C20_CmpAborts == AbortedWith("crypto_cmp") /\ call.a_type # call.b_type

\* C21: no error condition terminates the process -- in any sequence of
\* calls of the SQL functions and aggregate steps, rows of one aggregation
\* that name different families included, every call returns a value or
\* reports an error; none ends in a failed assertion or a trap.
C21_NoCallTerminates ==
  sql # NoSql =>
     /\ sql.ret.status \in {"text", "int", "null", "none", "error"}
     /\ pc # "aborted"
     /\ fault = "none"

\* The final function of the aggregate fn has returned for an aggregation
\* in which at least one row contributed an operand and all contributing
\* rows named one final denomination.
AggFinished(fn) ==
  /\ sql # NoSql
  /\ sql.fn = fn \o "_final"
  /\ fed.used > 0
  /\ Cardinality(fed.finals) = 1

\* The final denomination the contributing rows named, in the family of
\* the accumulator.
FedFinalDenom ==
  CHOOSE d \in 0..(DENOM_COUNT - 1) :
    d \in Entries(agg.acc.crypto_type, CHOOSE fd \in fed.finals : TRUE)

\* The exact sum of the contributing rows is the magnitude crypto_sum_final
\* formats, in whatever order the rows came.
SumMagnitudeExact ==
  AggFinished("crypto_sum") =>
     sql.ret.status = "text" /\ sql.ret.value = fed.ref /\ sql.ret.denom = FedFinalDenom

\* C22: crypto_sum is an exact, order-independent fold -- after step calls
\* of one aggregation that name one family and one final denomination and
\* carry validated operands, each under any denomination of the family,
\* crypto_sum_final returns the format, under the final denomination, of
\* the exact integer sum of the operands, whatever the order of the rows.
C22_SumExactFold ==
  AggFinished("crypto_sum") =>
     /\ sql.ret.status = "text"
     /\ sql.ret.text = RefFormat(fed.ref, FedFinalDenom)

\* C23: every engine operation terminates -- crypto_scale_by_precision,
\* entered with a validated decimal string of any number of whole and
\* fraction digits, returns after finitely many steps.
C23_ScaleTerminates == (pc = "counting") ~> (pc = "scaled")

\* The validator returns for every string it is entered with.
C23_ValidatorTerminates == (pc = "validating") ~> (pc \in {"validated", "rejected"})

\* A fraction of 255 digits is counted and converted, and the function
\* returns.
C23_ShortEnoughReturns ==
  (decimal_str = ZeroFraction(UInt8Max) /\ pc = "counting") ~> (pc = "scaled")

\* The magnitudes a destination of one digit can hold before a call
PriorMagnitudes == -9..9

\* C24: parsing is a pure function of its inputs -- for every string the
\* validator accepts and every denomination, the magnitude
\* crypto_set_from_decimal stores is the one it stores into a destination
\* holding any other prior magnitude.
C24_ParseIgnoresPrior ==
  (pc = "parsed_again" /\ call.valid) =>
    \A prior \in PriorMagnitudes :
        val.value = crypto_set_from_decimal(prior, call.denom, call.decimal_str)

\* With a decimal point, or with no white space other than blanks in front
\* of the sign, the stored magnitude does not depend on the destination.
C24_ParseIgnoresPriorPlain ==
  pc = "parsed_again" =>
    (IF call.valid /\ ~IsWs(At(call.decimal_str, SkipBlank(call.decimal_str, 1)))
     THEN \A prior \in PriorMagnitudes :
              val.value = crypto_set_from_decimal(prior, call.denom, call.decimal_str)
     ELSE TRUE)

\* crypto_max_final or crypto_min_final has run after rows that contributed
\* an operand.
ExtremeFinished ==
  /\ sql # NoSql
  /\ sql.fn \in {"crypto_max_final", "crypto_min_final"}
  /\ fed.used > 0

\* The final denomination the seeding row named, in the family of the
\* accumulator.
FedSeedDenom ==
  CHOOSE d \in 0..(DENOM_COUNT - 1) : d \in Entries(agg.acc.crypto_type, fed.seed)

\* The greatest (least) of the contributing rows' magnitudes is the
\* magnitude crypto_max_final (crypto_min_final) formats, under the final
\* denomination of the seeding row, in whatever order the rows came.
ExtremeMagnitudeExact ==
  ExtremeFinished =>
     sql.ret.status = "text" /\ sql.ret.value = fed.ref /\ sql.ret.denom = FedSeedDenom

\* C25: crypto_max and crypto_min follow the accumulator pattern -- after
\* step calls of one aggregation that name one family, the final function
\* returns the format, under the final denomination of the first row with a
\* valid operand, of the greatest (for crypto_min the least) parsed operand,
\* whatever the order of the rows and each row's operand denomination.
C25_ExtremeOfOperands ==
  ExtremeFinished =>
     /\ sql.ret.status = "text"
     /\ sql.ret.text = RefFormat(fed.ref, FedSeedDenom)

\* The step just taken was a step of an aggregate for a row whose operand
\* is NULL or rejected by crypto_is_valid_decimal.
UnusableRowStepped ==
  /\ fed'.rows = fed.rows + 1
  /\ IF sql'.op_2_str = NULL THEN TRUE ELSE ~crypto_is_valid_decimal(sql'.op_2_str)

\* A final function has run after rows none of which contributed an
\* operand.
FinalOfNothing ==
  /\ sql # NoSql
  /\ sql.fn \in {"crypto_sum_final", "crypto_max_final", "crypto_min_final"}
  /\ fed.used = 0

\* C26: rows without a usable operand do not touch the accumulator -- a
\* crypto_sum, crypto_max or crypto_min step whose operand is NULL or
\* rejected by the validator leaves the accumulator's initialized flag,
\* magnitude and final denomination as they were and reports no error, and
\* the final function of an aggregation to which no step contributed an
\* operand returns NULL.
C26_UnusableRowsFrame ==
  /\ [](FinalOfNothing => sql.ret.status = "null")
  /\ [][UnusableRowStepped =>
          /\ agg'.initialized = agg.initialized
          /\ agg'.acc.value = agg.acc.value
          /\ agg'.final_denom = agg.final_denom
          /\ sql'.ret.status = "none"
          /\ pc' = "stepped"]_vars

\* A row with a rejected operand was stepped after a row that contributed,
\* and the accumulator holds the contribution.
C26_Witness ==
  /\ pc = "stepped"
  /\ fed.rows = 2 /\ fed.used = 1
  /\ sql.op_2_str = RejectedOperand
  /\ agg.initialized = 1 /\ agg.acc.value # 0

\* An aggregation of one row with a NULL operand ended in NULL.
C26_NullWitness ==
  /\ FinalOfNothing
  /\ fed.rows = 1
  /\ sql.ret.status = "null"

\* The scalar SQL function fn has returned for a call one of whose parsed
\* operands is a string the validator rejects.
RejectedOperandPassed(fn) ==
  /\ sql # NoSql
  /\ sql.fn = fn
  /\ \/ sql.op_2_str # NULL /\ ~crypto_is_valid_decimal(sql.op_2_str)
     \/ fn # "crypto_scale_sqlite" /\ ~crypto_is_valid_decimal(sql.op_1_str)

\* C27: every SQL function that parses an operand validates it first --
\* crypto_add, crypto_sub, crypto_mul, crypto_div_trunc/floor/ceil,
\* crypto_cmp and crypto_scale report an error and return no value when an
\* operand is rejected by crypto_is_valid_decimal.
C27_ValidatedBeforeParse ==
  \A fn \in {"crypto_addsub_sqlite", "crypto_muldiv_sqlite", "crypto_cmp_sqlite",
              "crypto_scale_sqlite"} :
     RejectedOperandPassed(fn) => sql.ret.status = "error"

\* The arithmetic functions and crypto_cmp do report the error.
C27_ArithmeticValidates ==
  \A fn \in {"crypto_addsub_sqlite", "crypto_muldiv_sqlite", "crypto_cmp_sqlite"} :
     RejectedOperandPassed(fn) => sql.ret.status = "error"

\* The numeric value of a string of the grammar is not zero: one of its
\* digits is not '0'.
NonzeroValue(str) == \E k \in 1..Len(str) : isdigit(str[k]) /\ str[k] # "0"

\* A division has returned for a known family and denomination, a
\* validated dividend and a validated scalar whose value is not zero.
DividedByNonzero ==
  /\ sql # NoSql
  /\ sql.fn = "crypto_muldiv_sqlite"
  /\ IsDivision(sql.op)
  /\ ~LookupFails
  /\ crypto_is_valid_decimal(sql.op_1_str)
  /\ crypto_is_valid_decimal(sql.op_2_str)
  /\ NonzeroValue(sql.op_2_str)

\* C28: a division error is reported only for a zero divisor -- for every
\* dividend and every validated scalar string whose numeric value is not
\* zero, crypto_div_trunc, crypto_div_floor and crypto_div_ceil return a
\* quotient and do not report 'Division by zero'.
C28_ErrorOnlyForZeroDivisor ==
  DividedByNonzero =>
     /\ sql.ret.status = "text"
     /\ sql.ret.text # crypto_arithmetic_op_str[sql.op] \o ": Division by zero"

\* A scalar without a decimal point and with a nonzero value divides.
C28_IntegerDivisorDivides ==
  (DividedByNonzero /\ strchr(sql.op_2_str, ".") = 0) => sql.ret.status = "text"

\* The formatter's writes stay inside the buffer and every strcat finds a
\* NUL the formatter has written.
BufferSafe(value, d) ==
  \A junk \in HeapJunk :
     LET buffer == crypto_to_decimal_str_buffer(value, d, junk)
     IN buffer.written <= buffer.allocated /\ buffer.terminated

\* C29: format buffer safety -- for every value and every denomination of
\* its family, crypto_to_decimal_str writes no more bytes (sign, whole
\* digits, '.', zero padding, fraction digits, terminating NUL) than the
\* size it most recently allocated, and the buffer is NUL-terminated
\* before each string append that scans it.
C29_FormatBufferSafe == pc = "formatted" => BufferSafe(Source.value, to_denom)

\* A value that is a whole number of units of the denomination is
\* formatted inside its buffer.
C29_WholeUnitsSafe ==
  (pc = "formatted" /\ Source.value % power(10, crypto_denoms[to_denom].decimals) = 0) =>
     BufferSafe(Source.value, to_denom)

\* The bytes written are the returned string and its NUL when the scan
\* stopped inside the allocation.
C29_BufferHoldsString ==
  pc = "formatted" =>
     Len(crypto_to_decimal_str(Source.value, to_denom, << >>)) + 1
       = crypto_to_decimal_str_buffer(Source.value, to_denom, << >>).written

\* The greatest number of decimals the scale factor is assumed to have
MaxDecimals == 18

\* C30: scale factors do not overflow -- every denomination of the
\* registry has at most 18 decimals, and power(10, decimals), computed in
\* 64-bit unsigned arithmetic, is the mathematical 10^decimals for every
\* denomination crypto_set_from_decimal and crypto_to_decimal_str use.
C30_ScaleFactorsExact ==
  pc = "powered" =>
     /\ crypto_denoms[call.denom].decimals <= MaxDecimals
     /\ LimbsEqual(call.result, call.exact)

\* power has returned 10^18 for a denomination of 18 decimals.
C30_Witness ==
  /\ pc = "powered"
  /\ crypto_denoms[call.denom].decimals = MaxDecimals
  /\ call.result # LimbsOne(UInt64Limbs)
  /\ LimbsEqual(call.result, call.exact)

====
